---- MODULE Spec2Model ----
(***************************************************************************)
(* Tehran vendor mapping: the overlap detection and vendor analytics       *)
(* engine (modules/data_processor.py), the Flask request handlers that     *)
(* serve it (app.py) and the in-page filter of the earlier single-file     *)
(* version (old_version/main.py).                                          *)
(*                                                                         *)
(* Numbers.  Coordinates are integers in units of 1/222 degree, which is   *)
(* 500 m at the code's 111,000 m per degree, so every distance the code    *)
(* compares is compared here exactly, by its square.  Ratios (overlap      *)
(* rate, averages, density) are exact fractions [num, den].  Python's      *)
(* floating point rounding is not modelled.                                *)
(***************************************************************************)
EXTENDS Integers, Sequences, FiniteSets, TLC

VARIABLES
    max_vendors_for_overlap,   \* config.OVERLAP_CONFIG['MAX_VENDORS_FOR_OVERLAP']
    vendors_df,                \* DataProcessor.vendors_df (None before load_data)
    overlapping_vendor_codes,  \* DataProcessor.overlapping_vendor_codes
    overlap_pairs,             \* DataProcessor.overlap_pairs
    intersection_geometries,   \* DataProcessor.intersection_geometries
    vendor_statistics,         \* DataProcessor.vendor_statistics
    data_processor,            \* app.data_processor: "None" or "DataProcessor"
    server,                    \* the process: "starting", "running" or "exited"
    original_vendor_data,      \* app.original_vendor_data
    current_hidden_vendors,    \* app.current_hidden_vendors
    response,                  \* the response of the request served last
    threads,                   \* the requests in progress on the threaded server
    originalVendorData,        \* window.originalVendorData of the old version's page
    hiddenVendors,             \* window.hiddenVendors of that page
    pageStatistics             \* what the old version's page shows

vars == <<max_vendors_for_overlap, vendors_df, overlapping_vendor_codes, overlap_pairs,
          intersection_geometries, vendor_statistics, data_processor, server,
          original_vendor_data, current_hidden_vendors, response, threads,
          originalVendorData, hiddenVendors, pageStatistics>>

engineVars == <<vendors_df, overlapping_vendor_codes, overlap_pairs,
                intersection_geometries, vendor_statistics>>

pageVars == <<originalVendorData, hiddenVendors, pageStatistics>>

----------------------------------------------------------------------------
(* Program constants *)

SERVICE_RADIUS == 3000

METERS_PER_DEGREE == 111000

APP_OVERLAP_METERS == 6000

DEFAULT_MAX_VENDORS_FOR_OVERLAP == 500

\* The coordinate grid: 222 units per degree.
UnitsPerDegree == 2 * 111

MetersPerUnit == METERS_PER_DEGREE \div UnitsPerDegree

\* config.TEHRAN_BOUNDS, in grid units (50.5 degrees is 101 half degrees).
TEHRAN_BOUNDS ==
    [lat_min |-> 35 * UnitsPerDegree, lat_max |-> 36 * UnitsPerDegree,
     lon_min |-> 101 * (UnitsPerDegree \div 2), lon_max |-> 52 * UnitsPerDegree]

\* EPSG:32639 (UTM zone 39N) around Tehran (35.7N, 51.4E): projected metres
\* per 1000 of the code's metres-per-degree, northwards (110,896 m per degree
\* of latitude) and eastwards (90,468 m per degree of longitude).
UTM_NORTH_PERMILLE == 999

UTM_EAST_PERMILLE == 815

\* The haversine distance on a sphere of radius 6,371,000 m around Tehran,
\* over the few kilometres compared here: 111,195 m per degree of latitude and
\* 90,299 m per degree of longitude, per 1000 of the code's metres-per-degree.
HAVERSINE_NORTH_PERMILLE == 1002

HAVERSINE_EAST_PERMILLE == 814

\* A missing cell of a table (pandas NaN): no coordinate has this value.
NaN == -1

None == "None"

----------------------------------------------------------------------------
(* Helpers over sequences and fractions *)

Range(s) == {s[i] : i \in DOMAIN s}

RECURSIVE SumSeq(_)
SumSeq(s) == IF s = <<>> THEN 0 ELSE Head(s) + SumSeq(Tail(s))

MaxOf(S, default) == IF S = {} THEN default ELSE CHOOSE m \in S : \A x \in S : x <= m

MinOf(S, default) == IF S = {} THEN default ELSE CHOOSE m \in S : \A x \in S : m <= x

Frac(n, d) == [num |-> n, den |-> d]

Zero == Frac(0, 1)

FracEq(a, b) == a.num * b.den = b.num * a.den

RECURSIVE GCD(_, _)
GCD(a, b) == IF b = 0 THEN a ELSE GCD(b, a % b)

\* The quotient in lowest terms, so that equal quotients are equal records.
Reduced(f) ==
    IF f.num = 0 THEN Zero
    ELSE Frac(f.num \div GCD(f.num, f.den), f.den \div GCD(f.num, f.den))

RECURSIVE InsertAscending(_, _)
InsertAscending(sorted, x) ==
    IF sorted = <<>> THEN <<x>>
    ELSE IF x < Head(sorted) THEN <<x>> \o sorted
    ELSE <<Head(sorted)>> \o InsertAscending(Tail(sorted), x)

RECURSIVE SortAscending(_)
\* The values of a column in ascending order.
SortAscending(s) ==
    IF s = <<>> THEN <<>> ELSE InsertAscending(SortAscending(Tail(s)), Head(s))

FracLeq(a, b) == a.num * b.den <= b.num * a.den

\* Python's dict item assignment d[k] = v: adds the key when it is missing.
SetItem(d, k, v) == [x \in (DOMAIN d) \cup {k} |-> IF x = k THEN v ELSE d[x]]

----------------------------------------------------------------------------
(* Geometry *)

\* (lat1 - lat2)**2 + (lon1 - lon2)**2, in squared grid units.
DegreeDistSq(v1, v2) ==
    (v1.latitude - v2.latitude) * (v1.latitude - v2.latitude)
    + (v1.longitude - v2.longitude) * (v1.longitude - v2.longitude)

\* As app_distance_test, a pair at the threshold distance flagged too.
app_distance_test_inclusive(v1, v2) ==
    DegreeDistSq(v1, v2) * MetersPerUnit * MetersPerUnit
        <= APP_OVERLAP_METERS * APP_OVERLAP_METERS

\* app.py: distance = (...) ** 0.5 * 111000; distance < 6000.
app_distance_test(v1, v2) ==
    DegreeDistSq(v1, v2) * MetersPerUnit * MetersPerUnit
        < APP_OVERLAP_METERS * APP_OVERLAP_METERS

\* data_processor.py: overlap_threshold = SERVICE_RADIUS * 2 / 111000 degrees;
\* distance < overlap_threshold.
simple_distance_test(v1, v2) ==
    DegreeDistSq(v1, v2) * MetersPerUnit * MetersPerUnit
        < (SERVICE_RADIUS * 2) * (SERVICE_RADIUS * 2)

\* The squared distance of the two points after to_crs("EPSG:32639"), in
\* squared thousandths of a grid unit.
UtmDistSq(v1, v2) ==
    ((v1.longitude - v2.longitude) * UTM_EAST_PERMILLE)
        * ((v1.longitude - v2.longitude) * UTM_EAST_PERMILLE)
    + ((v1.latitude - v2.latitude) * UTM_NORTH_PERMILLE)
        * ((v1.latitude - v2.latitude) * UTM_NORTH_PERMILLE)

BufferReach == (2 * SERVICE_RADIUS * 1000) \div MetersPerUnit

\* geometry.buffer(SERVICE_RADIUS) of both points, then intersects: two disks
\* of radius R meet (touching included) when the centres are at most 2R apart.
buffers_intersect(v1, v2) == UtmDistSq(v1, v2) <= BufferReach * BufferReach

\* old_version calculateOverlaps: distance = R * c (haversine); distance < 6000.
haversine_distance_test(v1, v2) ==
    ((v1.longitude - v2.longitude) * HAVERSINE_EAST_PERMILLE)
        * ((v1.longitude - v2.longitude) * HAVERSINE_EAST_PERMILLE)
    + ((v1.latitude - v2.latitude) * HAVERSINE_NORTH_PERMILLE)
        * ((v1.latitude - v2.latitude) * HAVERSINE_NORTH_PERMILLE)
    < ((APP_OVERLAP_METERS * 1000) \div MetersPerUnit)
        * ((APP_OVERLAP_METERS * 1000) \div MetersPerUnit)

----------------------------------------------------------------------------
(* Ingestion: DataProcessor._process_vendor_data *)

RECURSIVE drop_duplicates(_, _)
\* geo_df.drop_duplicates(subset=['vendor_code'], keep='first'); seen holds
\* the codes of the rows already kept.
drop_duplicates(rows, seen) ==
    IF rows = <<>> THEN <<>>
    ELSE IF Head(rows).vendor_code \in seen
         THEN drop_duplicates(Tail(rows), seen)
         ELSE <<Head(rows)>>
              \o drop_duplicates(Tail(rows), seen \cup {Head(rows).vendor_code})

MergedRow(o, g) ==
    [vendor_code |-> o.vendor_code,
     total_order_count |-> o.total_order_count,
     avg_daily_orders |-> o.avg_daily_orders,
     latitude |-> g.latitude,
     longitude |-> g.longitude]

RECURSIVE MatchingRows(_, _)
MatchingRows(o, geo) ==
    IF geo = <<>> THEN <<>>
    ELSE (IF Head(geo).vendor_code = o.vendor_code
          THEN <<MergedRow(o, Head(geo))>> ELSE <<>>)
         \o MatchingRows(o, Tail(geo))

RECURSIVE merge_inner(_, _)
\* pd.merge(order_df, geo_df, on='vendor_code', how='inner'): the rows of the
\* left table in their order, each with the rows of the right table of its key.
merge_inner(order, geo) ==
    IF order = <<>> THEN <<>>
    ELSE MatchingRows(Head(order), geo) \o merge_inner(Tail(order), geo)

dropna(row) == row.latitude # NaN /\ row.longitude # NaN

in_bounds(row) ==
    /\ TEHRAN_BOUNDS.lat_min <= row.latitude
    /\ row.latitude <= TEHRAN_BOUNDS.lat_max
    /\ TEHRAN_BOUNDS.lon_min <= row.longitude
    /\ row.longitude <= TEHRAN_BOUNDS.lon_max

fillna(row) ==
    [row EXCEPT !.total_order_count = IF @ = NaN THEN 0 ELSE @,
                !.avg_daily_orders = IF @ = NaN THEN 0 ELSE @]

MapSeq(s, Op(_)) == [i \in DOMAIN s |-> Op(s[i])]

\* The values of a column, row by row.
Values(df, col) == [i \in DOMAIN df |-> df[i][col]]

\* df[col] / df[col].max() if df[col].max() > 0 else 0, for the row's value x.
normalized(x, df, col) ==
    LET m == MaxOf(Range(Values(df, col)), 0)
    IN  IF m > 0 THEN Frac(x, m) ELSE Zero

\* _calculate_performance_score, for one row of df:
\* (total_orders_norm * 0.6 + daily_orders_norm * 0.4) * 100.
calculate_performance_score(row, df) ==
    LET t == normalized(row.total_order_count, df, "total_order_count")
        d == normalized(row.avg_daily_orders, df, "avg_daily_orders")
    IN  Reduced(Frac(60 * t.num * d.den + 40 * d.num * t.den, t.den * d.den))

\* Series.quantile(quarters / 4) with linear interpolation, times 4: the
\* position (n - 1) * quarters / 4 lies between two values of the sorted column.
quantile_times_4(values, quarters) ==
    LET sorted == SortAscending(values)
        h  == (Len(sorted) - 1) * quarters
        lo == (h \div 4) + 1
        r  == h % 4
    IN  IF r = 0 THEN 4 * sorted[lo]
        ELSE 4 * sorted[lo] + r * (sorted[lo + 1] - sorted[lo])

\* As categorize_volume, a count on a threshold going to the lower category.
categorize_volume_exclusive(row, df) ==
    LET high_threshold == quantile_times_4(Values(df, "total_order_count"), 3)
        low_threshold  == quantile_times_4(Values(df, "total_order_count"), 1)
    IN  IF 4 * row.total_order_count > high_threshold THEN "High"
        ELSE IF 4 * row.total_order_count > low_threshold THEN "Medium"
        ELSE "Low"

\* _categorize_volume, for one row of df.
categorize_volume(row, df) ==
    LET high_threshold == quantile_times_4(Values(df, "total_order_count"), 3)
        low_threshold  == quantile_times_4(Values(df, "total_order_count"), 1)
    IN  IF 4 * row.total_order_count >= high_threshold THEN "High"
        ELSE IF 4 * row.total_order_count >= low_threshold THEN "Medium"
        ELSE "Low"

\* The two performance indicators added to every row of df.
add_performance_indicators(df) ==
    [i \in DOMAIN df |->
        [k \in (DOMAIN df[i]) \cup {"performance_score", "volume_category"} |->
            IF k = "performance_score" THEN calculate_performance_score(df[i], df)
            ELSE IF k = "volume_category" THEN categorize_volume(df[i], df)
            ELSE df[i][k]]]

\* _calculate_performance_score ends with score.fillna(0).  When neither
\* maximum is > 0 (both are 0, or NaN because the table is empty) both
\* normalized terms are the number 0 and score is the float 0.0, which has no
\* fillna: AttributeError.
performance_score_raises(df) ==
    /\ ~(MaxOf(Range(Values(df, "total_order_count")), 0) > 0)
    /\ ~(MaxOf(Range(Values(df, "avg_daily_orders")), 0) > 0)

\* _process_vendor_data up to the performance indicators: the cleaned table.
clean_vendor_data(order_df, geo_df) ==
    LET deduped == drop_duplicates(geo_df, {})
        merged  == merge_inner(order_df, deduped)
        clean   == SelectSeq(merged, dropna)
        tehran  == SelectSeq(clean, in_bounds)
    IN  MapSeq(tehran, fillna)

\* The table _process_vendor_data returns when it returns.
process_vendor_data(order_df, geo_df) ==
    add_performance_indicators(clean_vendor_data(order_df, geo_df))

----------------------------------------------------------------------------
(* The overlap engine: DataProcessor._calculate_overlaps and friends *)

Codes(vendors) == {vendors[i].vendor_code : i \in DOMAIN vendors}

RECURSIVE exact_pair_loop(_, _, _, _)
\* for vendor1, vendor2 in itertools.combinations(vendor_list, 2): the pairs
\* (i, j), i < j, in lexicographic order; acc is the engine's three fields.
exact_pair_loop(vendors, i, j, acc) ==
    IF i >= Len(vendors) THEN acc
    ELSE IF j > Len(vendors) THEN exact_pair_loop(vendors, i + 1, i + 2, acc)
    ELSE exact_pair_loop(vendors, i, j + 1,
            IF buffers_intersect(vendors[i], vendors[j])
            THEN [codes |-> acc.codes
                              \cup {vendors[i].vendor_code, vendors[j].vendor_code},
                  pairs |-> Append(acc.pairs,
                              <<vendors[i].vendor_code, vendors[j].vendor_code>>),
                  geoms |-> Append(acc.geoms, <<i, j>>)]
            ELSE acc)

RECURSIVE simple_pair_loop(_, _, _, _)
\* for i, vendor1 in enumerate(vendors): for vendor2 in vendors[i+1:]
simple_pair_loop(vendors, i, j, acc) ==
    IF i > Len(vendors) THEN acc
    ELSE IF j > Len(vendors) THEN simple_pair_loop(vendors, i + 1, i + 2, acc)
    ELSE simple_pair_loop(vendors, i, j + 1,
            IF simple_distance_test(vendors[i], vendors[j])
            THEN [codes |-> acc.codes
                              \cup {vendors[i].vendor_code, vendors[j].vendor_code},
                  pairs |-> Append(acc.pairs,
                              <<vendors[i].vendor_code, vendors[j].vendor_code>>),
                  geoms |-> acc.geoms]
            ELSE acc)

EmptyOverlap == [codes |-> {}, pairs |-> <<>>, geoms |-> <<>>]

\* _calculate_simple_overlaps: fresh locals, then the three fields assigned
\* (intersection_geometries to []).
calculate_simple_overlaps(vendors, before) ==
    LET r == simple_pair_loop(vendors, 1, 2, EmptyOverlap)
    IN  [codes |-> r.codes, pairs |-> r.pairs, geoms |-> <<>>]

\* As calculate_overlaps, without the three resets before the pair loop.
calculate_overlaps_no_reset(vendors, before, ceiling) ==
    IF vendors = <<>> THEN before
    ELSE IF Len(vendors) > ceiling THEN calculate_simple_overlaps(vendors, before)
    ELSE exact_pair_loop(vendors, 1, 2, before)

\* As calculate_overlaps, the pair loop stopping one vendor early.
calculate_overlaps_short(vendors, before, ceiling) ==
    IF vendors = <<>> THEN before
    ELSE IF Len(vendors) > ceiling
         THEN calculate_simple_overlaps(SubSeq(vendors, 1, Len(vendors) - 1), before)
         ELSE exact_pair_loop(SubSeq(vendors, 1, Len(vendors) - 1), 1, 2, EmptyOverlap)

RECURSIVE exact_pair_loop_raising(_, _, _, _, _)
\* exact_pair_loop with an exception raised (by intersects, intersection or
\* append) in the iteration that follows `left` completed ones: the fields as
\* the exception leaves them.
exact_pair_loop_raising(vendors, i, j, acc, left) ==
    IF left = 0 \/ i >= Len(vendors) THEN acc
    ELSE IF j > Len(vendors) THEN exact_pair_loop_raising(vendors, i + 1, i + 2, acc, left)
    ELSE exact_pair_loop_raising(vendors, i, j + 1,
            IF buffers_intersect(vendors[i], vendors[j])
            THEN [codes |-> acc.codes
                              \cup {vendors[i].vendor_code, vendors[j].vendor_code},
                  pairs |-> Append(acc.pairs,
                              <<vendors[i].vendor_code, vendors[j].vendor_code>>),
                  geoms |-> Append(acc.geoms, <<i, j>>)]
            ELSE acc,
            left - 1)

\* _calculate_overlaps raising in its pair loop after `completed` iterations:
\* the exact pass has reset the three fields and updates them in place, the
\* simplified pass works on locals and assigns the fields after its loop.
calculate_overlaps_raising(vendors, before, ceiling, completed) ==
    IF Len(vendors) > ceiling THEN before
    ELSE exact_pair_loop_raising(vendors, 1, 2, EmptyOverlap, completed)

\* _calculate_overlaps: before is the engine's (codes, pairs, geoms) when the
\* method is called, the result what they are when it returns.
calculate_overlaps(vendors, before, ceiling) ==
    IF vendors = <<>> THEN before
    ELSE IF Len(vendors) > ceiling THEN calculate_simple_overlaps(vendors, before)
    ELSE exact_pair_loop(vendors, 1, 2, EmptyOverlap)

\* _calculate_overlaps_for_subset
calculate_overlaps_for_subset(vendors_subset) ==
    IF Len(vendors_subset) < 2 THEN {}
    ELSE simple_pair_loop(vendors_subset, 1, 2, EmptyOverlap).codes

RECURSIVE app_pair_loop(_, _, _, _)
\* app.calculate_overlaps_for_vendors: for i, vendor1 in enumerate(vendors):
\* for vendor2 in vendors[i+1:]
app_pair_loop(vendors, i, j, overlapping) ==
    IF i > Len(vendors) THEN overlapping
    ELSE IF j > Len(vendors) THEN app_pair_loop(vendors, i + 1, i + 2, overlapping)
    ELSE app_pair_loop(vendors, i, j + 1,
            IF app_distance_test(vendors[i], vendors[j])
            THEN overlapping \cup {vendors[i].vendor_code, vendors[j].vendor_code}
            ELSE overlapping)

RECURSIVE app_pair_loop_self(_, _, _, _)
\* As app_pair_loop, with vendors[i:] for vendors[i+1:].
app_pair_loop_self(vendors, i, j, overlapping) ==
    IF i > Len(vendors) THEN overlapping
    ELSE IF j > Len(vendors) THEN app_pair_loop_self(vendors, i + 1, i + 1, overlapping)
    ELSE app_pair_loop_self(vendors, i, j + 1,
            IF app_distance_test(vendors[i], vendors[j])
            THEN overlapping \cup {vendors[i].vendor_code, vendors[j].vendor_code}
            ELSE overlapping)

calculate_overlaps_for_vendors_self(vendors) == app_pair_loop_self(vendors, 1, 1, {})

\* As calculate_overlaps_for_vendors, the overlapping codes taken from the
\* engine's result for the full table instead of a new pass.
calculate_overlaps_for_vendors_stale(vendors) == overlapping_vendor_codes \cap Codes(vendors)

\* As calculate_overlaps_for_vendors, returning the codes of the vendors
\* that are close to no other vendor.
calculate_overlaps_for_vendors_alone(vendors) ==
    Codes(vendors) \ app_pair_loop(vendors, 1, 2, {})

calculate_overlaps_for_vendors(vendors) == app_pair_loop(vendors, 1, 2, {})

----------------------------------------------------------------------------
(* Statistics: DataProcessor._calculate_statistics *)

Column(vendors, col) == {vendors[i][col] : i \in DOMAIN vendors}

Span(vendors, col) == MaxOf(Column(vendors, col), 0) - MinOf(Column(vendors, col), 0)

\* area_km2 = lat_span * lon_span * 111000 * 111000 / 1000000, with the spans
\* in degrees; here the area in square metres, from the spans in grid units.
BoundingAreaM2(vendors) ==
    Span(vendors, "latitude") * Span(vendors, "longitude")
        * MetersPerUnit * MetersPerUnit

\* float('nan') as a quotient: 0 / 0.
NaNQuotient == Frac(0, 0)

\* Series.mean()
series_mean(values) ==
    IF values = <<>> THEN NaNQuotient ELSE Frac(SumSeq(values), Len(values))

\* Series.median(): the middle value of the sorted column, or the mean of the
\* two middle values.
series_median(values) ==
    LET sorted == SortAscending(values)
        n == Len(sorted)
    IN  IF n = 0 THEN NaNQuotient
        ELSE IF n % 2 = 1 THEN Frac(sorted[(n + 1) \div 2], 1)
        ELSE Frac(sorted[n \div 2] + sorted[(n \div 2) + 1], 2)

\* Series.std(), squared: the sample variance (ddof=1), which is 0 / 0 for
\* fewer than two values.
series_std_squared(values) ==
    LET n == Len(values)
        squares == [i \in DOMAIN values |-> values[i] * values[i]]
    IN  IF n < 2 THEN NaNQuotient
        ELSE Frac(n * SumSeq(squares) - SumSeq(values) * SumSeq(values), n * (n - 1))

\* df[col].value_counts().get(value, 0)
value_counts(df, col, value) == Cardinality({i \in DOMAIN df : df[i][col] = value})

\* before is vendor_statistics when the method is called.  The _std entries
\* hold the square of the standard deviation.
calculate_statistics(vendors, overlapping, before) ==
    IF vendors = <<>> THEN before
    ELSE LET total == Len(vendors)
             over  == Cardinality(overlapping)
             orders == Values(vendors, "total_order_count")
             daily  == Values(vendors, "avg_daily_orders")
         IN  [total_vendors |-> total,
              overlapping_vendors |-> over,
              overlap_rate |-> IF total > 0 THEN Frac(over * 100, total) ELSE Zero,
              total_order_count_mean |-> series_mean(orders),
              total_order_count_median |-> series_median(orders),
              total_order_count_std |-> series_std_squared(orders),
              total_order_count_max |-> MaxOf(Range(orders), 0),
              total_order_count_min |-> MinOf(Range(orders), 0),
              total_order_count_sum |-> SumSeq(orders),
              avg_daily_orders_mean |-> series_mean(daily),
              avg_daily_orders_median |-> series_median(daily),
              avg_daily_orders_std |-> series_std_squared(daily),
              avg_daily_orders_max |-> MaxOf(Range(daily), 0),
              avg_daily_orders_min |-> MinOf(Range(daily), 0),
              avg_daily_orders_sum |-> SumSeq(daily),
              vendor_density |->
                  IF BoundingAreaM2(vendors) > 0
                  THEN Frac(total * 1000000, BoundingAreaM2(vendors))
                  ELSE Zero,
              high_volume_count |-> value_counts(vendors, "volume_category", "High"),
              medium_volume_count |-> value_counts(vendors, "volume_category", "Medium"),
              low_volume_count |-> value_counts(vendors, "volume_category", "Low")]

\* get_vendor_data_for_js
get_vendor_data_for_js(vendors, overlapping) ==
    [i \in DOMAIN vendors |->
        [vendor_code |-> vendors[i].vendor_code,
         latitude |-> vendors[i].latitude,
         longitude |-> vendors[i].longitude,
         total_order_count |-> vendors[i].total_order_count,
         avg_daily_orders |-> vendors[i].avg_daily_orders,
         is_overlapping |-> vendors[i].vendor_code \in overlapping,
         performance_score |-> vendors[i].performance_score,
         volume_category |-> vendors[i].volume_category]]

----------------------------------------------------------------------------
(* The inputs the model draws from *)

MaxHiddenLen == 2

VendorCodes == {"A", "B", "C"}

\* A code no table holds.
HiddenCodes == VendorCodes \cup {"Z"}

SeqsUpTo(S, n) == UNION {[1..k -> S] : k \in 0..n}

\* The average daily orders of the rows of a vendor.
AvgDailyOrders == [c \in VendorCodes |-> IF c = "A" THEN 2 ELSE IF c = "B" THEN 10 ELSE 20]

OrderRow(code, count) ==
    [vendor_code |-> code, total_order_count |-> count,
     avg_daily_orders |-> AvgDailyOrders[code]]

\* The order tables the server is started on: empty, one vendor, two, three
\* with distinct counts, three with a tie, and one with two rows for A.
AppOrderTables ==
    { <<>>,
      <<OrderRow("A", 100)>>,
      <<OrderRow("A", 100), OrderRow("B", 500)>>,
      <<OrderRow("A", 100), OrderRow("B", 500), OrderRow("C", 300)>>,
      <<OrderRow("A", 500), OrderRow("B", 500), OrderRow("C", 100)>>,
      <<OrderRow("A", 100), OrderRow("B", 500), OrderRow("A", 500)>> }

\* Central Tehran, 35.7N 51.4E, in grid units.
Place(north, east) == [latitude |-> 7925 + north, longitude |-> 11411 + east]

GeoRow(code, place) ==
    [vendor_code |-> code, latitude |-> place.latitude, longitude |-> place.longitude]

\* Geo tables: a chain (A-B and B-C 5 km apart, A-C 10 km), a table with a
\* pair 7 km apart east-west and a second row for A, and a table with a pair
\* 2 km apart, a row outside the bounds and a row without a latitude.
GeoTables ==
    { <<GeoRow("A", Place(0, 0)), GeoRow("B", Place(0, 10)), GeoRow("C", Place(0, 20))>>,
      <<GeoRow("A", Place(0, 0)), GeoRow("B", Place(0, 14)), GeoRow("A", Place(0, 14)),
        GeoRow("C", Place(10, 0))>>,
      <<GeoRow("A", Place(0, 0)), GeoRow("B", Place(0, 4)),
        GeoRow("C", [latitude |-> TEHRAN_BOUNDS.lat_min - 1, longitude |-> 11411])>>,
      <<GeoRow("A", Place(0, 0)), GeoRow("B", [latitude |-> NaN, longitude |-> 11411]),
        GeoRow("C", Place(0, 12))>> }

CeilingValues == {2, DEFAULT_MAX_VENDORS_FOR_OVERLAP}

HiddenLists == SeqsUpTo(HiddenCodes, MaxHiddenLen)

\* The bodies of a filter request that make the handler raise: no JSON body,
\* a JSON array, an object whose hidden_vendors is a number (not iterable),
\* and one whose hidden_vendors is a list of lists (unhashable items).
FailingBodies ==
    {[json |-> "none"], [json |-> "array"],
     [json |-> "object", hidden_vendors_is |-> "number"],
     [json |-> "object", hidden_vendors_is |-> "list of lists"]}

\* The JSON bodies of a filter request: the failing ones, an object without
\* the key, an object whose hidden_vendors is a list of codes.
FilterBodies ==
    FailingBodies \cup {[json |-> "object"]}
    \cup {[json |-> "object", hidden_vendors |-> h] : h \in HiddenLists}

RankingTypes == {"Total Orders", "Avg Daily Orders", "Bogus"}

ExportFormats == {"csv", "xlsx"}

----------------------------------------------------------------------------
(* Start-up *)

NoResponse == [endpoint |-> "none"]

Init ==
    /\ max_vendors_for_overlap \in CeilingValues
    /\ vendors_df = <<>>
    /\ overlapping_vendor_codes = {}
    /\ overlap_pairs = <<>>
    /\ intersection_geometries = <<>>
    /\ vendor_statistics = <<>>
    /\ data_processor = None
    /\ server = "starting"
    /\ original_vendor_data = <<>>
    /\ current_hidden_vendors = {}
    /\ response = NoResponse
    /\ threads = <<>>
    /\ originalVendorData = <<>>
    /\ hiddenVendors = {}
    /\ pageStatistics = <<>>

\* DataProcessor.load_data on a fresh DataProcessor: the engine's five fields
\* when it returns or raises, and what it returns.  _process_vendor_data is
\* called outside the try block, so its AttributeError leaves load_data with
\* vendors_df not assigned.
load_data(order_df, geo_df, ceiling) ==
    LET df      == process_vendor_data(order_df, geo_df)
        overlap == calculate_overlaps(df, EmptyOverlap, ceiling)
    IN  IF performance_score_raises(clean_vendor_data(order_df, geo_df))
        THEN [ok |-> FALSE, raised |-> TRUE, df |-> <<>>,
              overlap |-> EmptyOverlap, stats |-> <<>>]
        ELSE IF df = <<>>
        THEN [ok |-> FALSE, raised |-> FALSE, df |-> df,
              overlap |-> EmptyOverlap, stats |-> <<>>]
        ELSE [ok |-> TRUE, raised |-> FALSE, df |-> df, overlap |-> overlap,
              stats |-> calculate_statistics(df, overlap.codes, <<>>)]

\* app.main: initialize_application, then app.run; the process ends with
\* sys.exit(1) when the data does not load and with the exception when
\* load_data raises.
main(order_df, geo_df) ==
    /\ server = "starting"
    /\ LET loaded == load_data(order_df, geo_df, max_vendors_for_overlap)
       IN  /\ data_processor' = "DataProcessor"
           /\ vendors_df' = loaded.df
           /\ overlapping_vendor_codes' = loaded.overlap.codes
           /\ overlap_pairs' = loaded.overlap.pairs
           /\ intersection_geometries' = loaded.overlap.geoms
           /\ vendor_statistics' = loaded.stats
           /\ original_vendor_data' =
                 IF loaded.ok
                 THEN get_vendor_data_for_js(loaded.df, loaded.overlap.codes)
                 ELSE <<>>
           /\ server' = IF loaded.ok THEN "running" ELSE "exited"
    /\ UNCHANGED <<max_vendors_for_overlap, current_hidden_vendors, response,
                   threads, pageVars>>

\* start_server.py: from app import app; app.run(...), without
\* initialize_application.
start_server ==
    /\ server = "starting"
    /\ server' = "running"
    /\ UNCHANGED <<max_vendors_for_overlap, engineVars, data_processor,
                   original_vendor_data, current_hidden_vendors, response,
                   threads, pageVars>>

----------------------------------------------------------------------------
(* The request handlers of app.py, one request at a time *)

\* As Visible, keeping the hidden vendors instead.
Visible_inverted(vendors, hidden) ==
    SelectSeq(vendors, LAMBDA v : v.vendor_code \in hidden)

\* [v for v in original_vendor_data if v['vendor_code'] not in hidden]
Visible(vendors, hidden) ==
    SelectSeq(vendors, LAMBDA v : v.vendor_code \notin hidden)

TotalOrders(vendors) == SumSeq([i \in DOMAIN vendors |-> vendors[i].total_order_count])

\* As filter_statistics, the rate taken over the whole store.
filter_statistics_over_store(store, visible_vendors, hidden, overlapping_visible) ==
    [total_vendors |-> Len(store),
     active_vendors |-> Len(visible_vendors),
     hidden_vendors |-> Cardinality(hidden),
     overlapping_vendors |-> Cardinality(overlapping_visible),
     overlap_rate |->
         IF store # <<>>
         THEN Frac(Cardinality(overlapping_visible) * 100, Len(store))
         ELSE Zero,
     avg_orders |->
         IF visible_vendors # <<>>
         THEN Frac(TotalOrders(visible_vendors), Len(visible_vendors))
         ELSE Zero,
     max_orders |-> MaxOf(Column(visible_vendors, "total_order_count"), 0)]

\* The statistics dict of filter_vendors; hidden is current_hidden_vendors
\* when the dict is built.
filter_statistics(store, visible_vendors, hidden, overlapping_visible) ==
    [total_vendors |-> Len(store),
     active_vendors |-> Len(visible_vendors),
     hidden_vendors |-> Cardinality(hidden),
     overlapping_vendors |-> Cardinality(overlapping_visible),
     overlap_rate |->
         IF visible_vendors # <<>>
         THEN Frac(Cardinality(overlapping_visible) * 100, Len(visible_vendors))
         ELSE Zero,
     avg_orders |->
         IF visible_vendors # <<>>
         THEN Frac(TotalOrders(visible_vendors), Len(visible_vendors))
         ELSE Zero,
     max_orders |-> MaxOf(Column(visible_vendors, "total_order_count"), 0)]

ErrorResponse(endpoint, status) ==
    [endpoint |-> endpoint, status |-> status, success |-> FALSE]

\* As filter_vendors, the codes sent added to the hidden set.
filter_vendors_merging(body) ==
    /\ server = "running"
    /\ body.json = "object"
    /\ "hidden_vendors" \in DOMAIN body
    /\ LET hidden  == current_hidden_vendors \cup Range(body.hidden_vendors)
           visible == Visible(original_vendor_data, hidden)
           overlapping_visible == calculate_overlaps_for_vendors(visible)
       IN  /\ current_hidden_vendors' = hidden
           /\ response' =
                 [endpoint |-> "filter_vendors", status |-> 200, success |-> TRUE,
                  visible_vendors |-> visible,
                  statistics |-> filter_statistics(original_vendor_data, visible,
                                                   hidden, overlapping_visible),
                  overlapping_vendors |-> overlapping_visible]
    /\ UNCHANGED <<max_vendors_for_overlap, engineVars, data_processor, server,
                   original_vendor_data, threads, pageVars>>

\* data.get raises AttributeError when the body is no JSON object, and
\* set(hidden_vendor_codes) raises TypeError when hidden_vendors is not
\* iterable or holds unhashable items.
filter_request_raises(body) ==
    body.json # "object" \/ "hidden_vendors_is" \in DOMAIN body

\* As filter_vendors, the hidden set emptied before the body is read.
filter_vendors_clearing(body) ==
    /\ server = "running"
    /\ IF filter_request_raises(body)
       THEN /\ response' = ErrorResponse("filter_vendors", 500)
            /\ current_hidden_vendors' = {}
       ELSE LET hidden_vendor_codes ==
                    IF "hidden_vendors" \in DOMAIN body THEN body.hidden_vendors ELSE <<>>
                hidden  == Range(hidden_vendor_codes)
                visible == Visible(original_vendor_data, hidden)
                overlapping_visible == calculate_overlaps_for_vendors(visible)
            IN  /\ current_hidden_vendors' = hidden
                /\ response' =
                      [endpoint |-> "filter_vendors", status |-> 200, success |-> TRUE,
                       visible_vendors |-> visible,
                       statistics |-> filter_statistics(original_vendor_data, visible,
                                                        hidden, overlapping_visible),
                       overlapping_vendors |-> overlapping_visible]
    /\ UNCHANGED <<max_vendors_for_overlap, engineVars, data_processor, server,
                   original_vendor_data, threads, pageVars>>

filter_vendors(body) ==
    /\ server = "running"
    /\ IF filter_request_raises(body)
       THEN \* the except branch answers; the assignment was not reached
            /\ response' = ErrorResponse("filter_vendors", 500)
            /\ UNCHANGED current_hidden_vendors
       ELSE LET hidden_vendor_codes ==
                    IF "hidden_vendors" \in DOMAIN body THEN body.hidden_vendors ELSE <<>>
                hidden  == Range(hidden_vendor_codes)
                visible == Visible(original_vendor_data, hidden)
                overlapping_visible == calculate_overlaps_for_vendors(visible)
            IN  /\ current_hidden_vendors' = hidden
                /\ response' =
                      [endpoint |-> "filter_vendors", status |-> 200, success |-> TRUE,
                       visible_vendors |-> visible,
                       statistics |-> filter_statistics(original_vendor_data, visible,
                                                        hidden, overlapping_visible),
                       overlapping_vendors |-> overlapping_visible]
    /\ UNCHANGED <<max_vendors_for_overlap, engineVars, data_processor, server,
                   original_vendor_data, threads, pageVars>>

get_statistics ==
    /\ server = "running"
    /\ LET visible == Visible(original_vendor_data, current_hidden_vendors)
           overlapping_visible == calculate_overlaps_for_vendors(visible)
           base == filter_statistics(original_vendor_data, visible,
                                     current_hidden_vendors, overlapping_visible)
       IN  response' =
             IF data_processor = None
             THEN \* data_processor.vendor_statistics raises on None
                  ErrorResponse("statistics", 500)
             ELSE [endpoint |-> "statistics", status |-> 200,
                   statistics |->
                     [k \in (DOMAIN base) \cup {"vendor_density", "total_orders"} |->
                        IF k = "vendor_density"
                        THEN IF "vendor_density" \in DOMAIN vendor_statistics
                             THEN vendor_statistics.vendor_density ELSE Zero
                        ELSE IF k = "total_orders" THEN TotalOrders(visible)
                        ELSE base[k]]]
    /\ UNCHANGED <<max_vendors_for_overlap, engineVars, data_processor, server,
                   original_vendor_data, current_hidden_vendors, threads, pageVars>>

\* ranking_mapping of get_rankings
ranking_mapping ==
    [x \in {"Total Orders", "Avg Daily Orders"} |->
        IF x = "Total Orders" THEN "total_order_count" ELSE "avg_daily_orders"]

\* The indices of the store's visible records, in store order.
VisibleIndices(vendors, hidden) ==
    SelectSeq([i \in DOMAIN vendors |-> i],
              LAMBDA i : vendors[i].vendor_code \notin hidden)

\* x.get(ranking_column, 0)
SortKey(vendor, column) == IF column \in DOMAIN vendor THEN vendor[column] ELSE 0

RECURSIVE InsertDescending(_, _, _, _)
\* Insert index x into the sorted sequence after every index whose key is at
\* least x's: sorted(..., reverse=True) keeps equal keys in their input order.
InsertDescending(sorted, x, vendors, column) ==
    IF sorted = <<>> THEN <<x>>
    ELSE IF SortKey(vendors[Head(sorted)], column) >= SortKey(vendors[x], column)
         THEN <<Head(sorted)>> \o InsertDescending(Tail(sorted), x, vendors, column)
         ELSE <<x>> \o sorted

RECURSIVE sorted_reverse(_, _, _)
\* sorted(visible_vendors, key=lambda x: x.get(ranking_column, 0), reverse=True),
\* as the sequence of store indices.
sorted_reverse(indices, vendors, column) ==
    IF indices = <<>> THEN <<>>
    ELSE InsertDescending(
            sorted_reverse(SubSeq(indices, 1, Len(indices) - 1), vendors, column),
            indices[Len(indices)], vendors, column)

\* The position of x in the sequence s (x occurs in it once).
IndexOf(s, x) == CHOOSE k \in DOMAIN s : s[k] = x

\* As add_rank_numbers, with vendor['rank'] = i.
add_rank_numbers_from_zero(store, sorted_indices) ==
    [i \in DOMAIN store |->
        IF i \in Range(sorted_indices)
        THEN SetItem(store[i], "rank", IndexOf(sorted_indices, i) - 1)
        ELSE store[i]]

\* As add_rank_numbers, vendors of equal total_order_count sharing a rank.
add_rank_numbers_dense(store, sorted_indices) ==
    [i \in DOMAIN store |->
        IF i \in Range(sorted_indices)
        THEN SetItem(store[i], "rank",
                 Cardinality({store[j].total_order_count : j \in
                     {k \in Range(sorted_indices) :
                         store[k].total_order_count > store[i].total_order_count}}) + 1)
        ELSE store[i]]

\* for i, vendor in enumerate(sorted_vendors): vendor['rank'] = i + 1.  The
\* dicts of sorted_vendors are the dicts of original_vendor_data, so the
\* assignment lands in the store.
add_rank_numbers(store, sorted_indices) ==
    [i \in DOMAIN store |->
        IF i \in Range(sorted_indices)
        THEN SetItem(store[i], "rank", IndexOf(sorted_indices, i))
        ELSE store[i]]

get_rankings(ranking_type) ==
    /\ server = "running"
    /\ IF ranking_type \notin DOMAIN ranking_mapping
       THEN /\ response' = [endpoint |-> "rankings", status |-> 400,
                            error |-> <<"Invalid ranking type", ranking_type>>]
            /\ UNCHANGED original_vendor_data
       ELSE LET column == ranking_mapping[ranking_type]
                sorted_indices ==
                    sorted_reverse(
                        VisibleIndices(original_vendor_data, current_hidden_vendors),
                        original_vendor_data, column)
                ranked == add_rank_numbers(original_vendor_data, sorted_indices)
            IN  /\ original_vendor_data' = ranked
                /\ response' =
                      [endpoint |-> "rankings", status |-> 200,
                       ranking_type |-> ranking_type,
                       vendors |-> [k \in DOMAIN sorted_indices |->
                                        ranked[sorted_indices[k]]],
                       total |-> Len(sorted_indices)]
    /\ UNCHANGED <<max_vendors_for_overlap, engineVars, data_processor, server,
                   current_hidden_vendors, threads, pageVars>>

\* The columns of the CSV export that the model's records carry.
export_headers == <<"vendor_code", "total_order_count">>

export_data(format) ==
    /\ server = "running"
    /\ LET visible == Visible(original_vendor_data, current_hidden_vendors)
       IN  response' =
             IF format = "csv"
             THEN [endpoint |-> "export", status |-> 200, success |-> TRUE,
                   data |-> [i \in DOMAIN visible |->
                               [h \in DOMAIN export_headers |-> visible[i][export_headers[h]]]],
                   filename |-> <<"tehran_vendors", Len(visible)>>]
             ELSE [endpoint |-> "export", status |-> 400,
                   error |-> <<"Unsupported format">>]
    /\ UNCHANGED <<max_vendors_for_overlap, engineVars, data_processor, server,
                   original_vendor_data, current_hidden_vendors, threads, pageVars>>

\* DataProcessor._calculate_overlaps called again on the loaded engine.
recalculate_overlaps ==
    /\ data_processor = "DataProcessor"
    /\ LET r == calculate_overlaps(
                    vendors_df,
                    [codes |-> overlapping_vendor_codes, pairs |-> overlap_pairs,
                     geoms |-> intersection_geometries],
                    max_vendors_for_overlap)
       IN  /\ overlapping_vendor_codes' = r.codes
           /\ overlap_pairs' = r.pairs
           /\ intersection_geometries' = r.geoms
    /\ response' = [endpoint |-> "_calculate_overlaps"]
    /\ UNCHANGED <<max_vendors_for_overlap, vendors_df, vendor_statistics,
                   data_processor, server, original_vendor_data,
                   current_hidden_vendors, threads, pageVars>>

----------------------------------------------------------------------------
(* The methods of DataProcessor that take a hidden set *)

\* The hidden sets the methods are called with.
HiddenSets == {{}, {"B"}, {"A", "B"}, {"A", "B", "C"}}

\* vendors_df[~vendors_df['vendor_code'].isin(hidden)]
isin_complement(df, hidden) == SelectSeq(df, LAMBDA v : v.vendor_code \notin hidden)

\* The pair DataProcessor.filter_vendors_real_time returns, as a response.
filter_vendors_real_time_returns(hidden_vendor_codes) ==
    LET visible_vendors == isin_complement(vendors_df, hidden_vendor_codes)
        visible_overlapping ==
            IF visible_vendors # <<>>
            THEN calculate_overlaps_for_subset(visible_vendors)
            ELSE {}
    IN  IF hidden_vendor_codes = {}
        THEN \* if not hidden_vendor_codes: the data of the initial pass
             [endpoint |-> "filter_vendors_real_time",
              vendors_js_data |->
                  get_vendor_data_for_js(vendors_df, overlapping_vendor_codes),
              visible_overlapping |-> overlapping_vendor_codes]
        ELSE [endpoint |-> "filter_vendors_real_time",
              vendors_js_data |->
                  get_vendor_data_for_js(visible_vendors, visible_overlapping),
              visible_overlapping |-> visible_overlapping]

\* DataProcessor.filter_vendors_real_time
filter_vendors_real_time(hidden_vendor_codes) ==
    /\ data_processor = "DataProcessor"
    /\ response' = filter_vendors_real_time_returns(hidden_vendor_codes)
    /\ UNCHANGED <<max_vendors_for_overlap, engineVars, data_processor, server,
                   original_vendor_data, current_hidden_vendors, threads, pageVars>>

\* config.RANKING_CRITERIA, for the columns the model's tables carry.
RANKING_CRITERIA ==
    [x \in {"Total Orders", "Avg Daily Orders"} |->
        IF x = "Total Orders" THEN "total_order_count" ELSE "avg_daily_orders"]

\* The orders sort_values(by=column, ascending=False) can leave the rows in,
\* as sequences of row positions: the default kind is quicksort, which keeps
\* no promise about rows of equal value.
sort_values_descending(df, column) ==
    {p \in [DOMAIN df -> DOMAIN df] :
        /\ \A i, j \in DOMAIN df : i # j => p[i] # p[j]
        /\ \A i, j \in DOMAIN df : i < j => df[p[i]][column] >= df[p[j]][column]}

\* DataProcessor.get_ranking_data: the list it returns.
get_ranking_data(ranking_criterion, hidden_vendors) ==
    /\ data_processor = "DataProcessor"
    /\ LET visible_vendors == isin_complement(vendors_df, hidden_vendors)
       IN  IF ranking_criterion \notin DOMAIN RANKING_CRITERIA
           THEN response' = [endpoint |-> "get_ranking_data", ranking_data |-> <<>>]
           ELSE \E p \in sort_values_descending(visible_vendors,
                                                 RANKING_CRITERIA[ranking_criterion]) :
                    response' =
                      [endpoint |-> "get_ranking_data",
                       ranking_data |->
                         [k \in DOMAIN p |->
                            [rank |-> k,
                             vendor_code |-> visible_vendors[p[k]].vendor_code,
                             value |-> visible_vendors[p[k]][RANKING_CRITERIA[ranking_criterion]],
                             latitude |-> visible_vendors[p[k]].latitude,
                             longitude |-> visible_vendors[p[k]].longitude,
                             is_overlapping |->
                                 visible_vendors[p[k]].vendor_code
                                     \in overlapping_vendor_codes]]]
    /\ UNCHANGED <<max_vendors_for_overlap, engineVars, data_processor, server,
                   original_vendor_data, current_hidden_vendors, threads, pageVars>>

\* Series.rank(method='dense', ascending=False).astype(int) of the value x.
dense_rank(x, values) == Cardinality({v \in Range(values) : v > x}) + 1

\* DataProcessor.format_dataframe_for_display on the loaded table: the rank
\* columns it adds, beside the vendor code.
format_dataframe_for_display ==
    /\ data_processor = "DataProcessor"
    /\ response' =
          [endpoint |-> "format_dataframe_for_display",
           display_df |->
             [i \in DOMAIN vendors_df |->
                [k \in {"vendor_code"} \cup DOMAIN RANKING_CRITERIA |->
                    IF k = "vendor_code" THEN vendors_df[i].vendor_code
                    ELSE dense_rank(vendors_df[i][RANKING_CRITERIA[k]],
                                    Values(vendors_df, RANKING_CRITERIA[k]))]]]
    /\ UNCHANGED <<max_vendors_for_overlap, engineVars, data_processor, server,
                   original_vendor_data, current_hidden_vendors, threads, pageVars>>

----------------------------------------------------------------------------
(* The server, one request at a time *)

Next ==
    \/ \E o \in AppOrderTables, g \in GeoTables : main(o, g)
    \/ start_server
    \/ \E body \in FilterBodies : filter_vendors(body)
    \/ get_statistics
    \/ \E t \in RankingTypes : get_rankings(t)
    \/ \E f \in ExportFormats : export_data(f)
    \/ recalculate_overlaps
    \/ \E h \in HiddenSets : filter_vendors_real_time(h)

Spec == Init /\ [][Next]_vars

\* The filter requests sent between rankings.
RankingBodies ==
    {[json |-> "object", hidden_vendors |-> h] : h \in {<<>>, <<"B">>, <<"A", "C">>}}

NextRanking ==
    \/ \E o \in AppOrderTables, g \in GeoTables : main(o, g)
    \/ \E body \in RankingBodies : filter_vendors(body)
    \/ \E t \in RankingTypes : get_rankings(t)
    \/ \E t \in RankingTypes, h \in HiddenSets : get_ranking_data(t, h)
    \/ format_dataframe_for_display
    \/ get_statistics

\* The rankings of the server and of the DataProcessor.
SpecRanking == Init /\ [][NextRanking]_vars

----------------------------------------------------------------------------
(* The engine alone: ingestion and the overlap pass, with its failures *)

MaxCompletedPairs == 2

OrderRowWith(code, count, daily) ==
    [vendor_code |-> code, total_order_count |-> count, avg_daily_orders |-> daily]

\* Order tables for the performance indicators: no orders at all, missing
\* counts, no daily orders, equal counts, and two and three distinct counts.
EngineOrderTables ==
    { <<OrderRowWith("A", 0, 0), OrderRowWith("B", 0, 0)>>,
      <<OrderRowWith("A", NaN, NaN), OrderRowWith("C", 0, NaN)>>,
      <<OrderRowWith("A", 100, 0), OrderRowWith("B", 500, 0), OrderRowWith("C", 300, 0)>>,
      <<OrderRowWith("A", 0, 5), OrderRowWith("B", 0, 10)>>,
      <<OrderRowWith("A", 300, 7), OrderRowWith("B", 300, 7), OrderRowWith("C", 300, 7)>>,
      <<OrderRowWith("A", 100, 20), OrderRowWith("B", 500, 10), OrderRowWith("C", 300, 2)>>,
      <<OrderRowWith("A", 100, 2), OrderRowWith("C", 500, 20)>>,
      <<OrderRowWith("A", 250, 4)>> }

\* DataProcessor._calculate_overlaps called again on the loaded engine and
\* raising in its pair loop, after `completed` iterations.
recalculate_overlaps_raising(completed) ==
    /\ data_processor = "DataProcessor"
    /\ vendors_df # <<>>
    /\ 2 * completed < Len(vendors_df) * (Len(vendors_df) - 1)
    /\ LET r == calculate_overlaps_raising(
                    vendors_df,
                    [codes |-> overlapping_vendor_codes, pairs |-> overlap_pairs,
                     geoms |-> intersection_geometries],
                    max_vendors_for_overlap, completed)
       IN  /\ overlapping_vendor_codes' = r.codes
           /\ overlap_pairs' = r.pairs
           /\ intersection_geometries' = r.geoms
    /\ response' = [endpoint |-> "_calculate_overlaps", raised |-> TRUE,
                    completed |-> completed]
    /\ UNCHANGED <<max_vendors_for_overlap, vendors_df, vendor_statistics,
                   data_processor, server, original_vendor_data,
                   current_hidden_vendors, threads, pageVars>>

NextEngine ==
    \/ \E o \in EngineOrderTables \cup AppOrderTables, g \in GeoTables : main(o, g)
    \/ recalculate_overlaps
    \/ \E completed \in 0..MaxCompletedPairs : recalculate_overlaps_raising(completed)

\* A DataProcessor loaded and its overlap pass run again.
SpecEngine == Init /\ [][NextEngine]_vars

----------------------------------------------------------------------------
(* The old version: create_vendor_map and the filter script of its page *)

RECURSIVE page_pair_loop(_, _, _, _)
\* calculateOverlaps: for i, for j = i + 1; the overlapping codes.
page_pair_loop(vendors, i, j, overlapping) ==
    IF i > Len(vendors) THEN overlapping
    ELSE IF j > Len(vendors) THEN page_pair_loop(vendors, i + 1, i + 2, overlapping)
    ELSE page_pair_loop(vendors, i, j + 1,
            IF haversine_distance_test(vendors[i], vendors[j])
            THEN overlapping \cup {vendors[i].vendor_code, vendors[j].vendor_code}
            ELSE overlapping)

\* updateStatistics and updateFilterStatus: what the panels show.
page_statistics(total, overlapping, hidden) ==
    [total_vendors |-> total,
     overlapping_vendors |-> overlapping,
     overlap_rate |-> IF total > 0 THEN Frac(overlapping * 100, total) ELSE Zero,
     filter_status |-> Cardinality(hidden)]

\* updateMapLayers: the statistics of the visible vendors.
update_map_layers(data, hidden) ==
    LET visible == SelectSeq(data, LAMBDA v : v.vendor_code \notin hidden)
    IN  page_statistics(Len(visible),
                        Cardinality(page_pair_loop(visible, 1, 2, {})), hidden)

\* create_vendor_map: the page written for the two tables; none when no
\* vendor is left after cleaning.
create_vendor_map(order_df, geo_df) ==
    /\ pageStatistics = <<>>
    /\ LET df == SelectSeq(SelectSeq(merge_inner(order_df, drop_duplicates(geo_df, {})),
                                     dropna), in_bounds)
       IN  /\ df # <<>>
           /\ originalVendorData' = MapSeq(df, fillna)
           /\ hiddenVendors' = {}
           /\ pageStatistics' =
                 page_statistics(Len(df),
                                 Cardinality(exact_pair_loop(df, 1, 2, EmptyOverlap).codes),
                                 {})
    /\ UNCHANGED <<max_vendors_for_overlap, engineVars, data_processor, server,
                   original_vendor_data, current_hidden_vendors, response, threads>>

\* As apply_filter_btn, the selection replacing the hidden set.
apply_filter_btn_replacing(selected) ==
    /\ pageStatistics # <<>>
    /\ selected \subseteq Codes(originalVendorData)
    /\ hiddenVendors' = selected
    /\ pageStatistics' = update_map_layers(originalVendorData, selected)
    /\ UNCHANGED <<max_vendors_for_overlap, engineVars, data_processor, server,
                   original_vendor_data, current_hidden_vendors, response, threads,
                   originalVendorData>>

\* The click handler of "Hide Selected": every selected option is added to
\* window.hiddenVendors, then updateMapLayers().
apply_filter_btn(selected) ==
    /\ pageStatistics # <<>>
    /\ selected \subseteq Codes(originalVendorData)
    /\ hiddenVendors' = hiddenVendors \cup selected
    /\ pageStatistics' = update_map_layers(originalVendorData, hiddenVendors \cup selected)
    /\ UNCHANGED <<max_vendors_for_overlap, engineVars, data_processor, server,
                   original_vendor_data, current_hidden_vendors, response, threads,
                   originalVendorData>>

\* The click handler of "Show All": window.hiddenVendors.clear(), then
\* updateMapLayers().
clear_filter_btn ==
    /\ pageStatistics # <<>>
    /\ hiddenVendors' = {}
    /\ pageStatistics' = update_map_layers(originalVendorData, {})
    /\ UNCHANGED <<max_vendors_for_overlap, engineVars, data_processor, server,
                   original_vendor_data, current_hidden_vendors, response, threads,
                   originalVendorData>>

\* The tables the filter of the server and the filter of the page are
\* compared on.
PageOrderTables ==
    { <<OrderRow("A", 100), OrderRow("B", 500), OrderRow("C", 300)>>,
      <<OrderRow("A", 100), OrderRow("B", 500)>> }


NextPage ==
    \/ \E o \in PageOrderTables, g \in GeoTables : main(o, g)
    \/ \E body \in FilterBodies : filter_vendors(body)
    \/ \E o \in PageOrderTables, g \in GeoTables : create_vendor_map(o, g)
    \/ \E selected \in SUBSET VendorCodes : apply_filter_btn(selected)
    \/ clear_filter_btn

\* The server's filter endpoint beside the old version's page.
SpecPage == Init /\ [][NextPage]_vars

----------------------------------------------------------------------------
(* The server under app.run(threaded=True): one thread per request, no lock *)

MaxThreads == 2

\* The code lists the concurrent filter requests carry.
ThreadedLists == { <<"A">>, <<"B">>, <<"B", "C">> }

NewThread(kind, hidden_vendor_codes) ==
    [kind |-> kind, pc |-> IF kind = "filter" THEN "set_hidden" ELSE "visible",
     request |-> hidden_vendor_codes, i |-> 1, visible |-> <<>>,
     response |-> NoResponse]

\* The server hands a request to a thread that is free.
accept_request(t, kind, hidden_vendor_codes) ==
    /\ server = "running"
    /\ \/ /\ t = Len(threads) + 1
          /\ threads' = Append(threads, NewThread(kind, hidden_vendor_codes))
       \/ /\ t \in DOMAIN threads
          /\ threads[t].pc = "done"
          /\ threads' = [threads EXCEPT ![t] = NewThread(kind, hidden_vendor_codes)]
    /\ UNCHANGED <<max_vendors_for_overlap, engineVars, data_processor, server,
                   original_vendor_data, current_hidden_vendors, response, pageVars>>

\* filter_vendors: current_hidden_vendors = set(hidden_vendor_codes).
thread_set_hidden(t) ==
    /\ t \in DOMAIN threads
    /\ threads[t].pc = "set_hidden"
    /\ current_hidden_vendors' = Range(threads[t].request)
    /\ threads' = [threads EXCEPT ![t].pc = "visible"]
    /\ UNCHANGED <<max_vendors_for_overlap, engineVars, data_processor, server,
                   original_vendor_data, response, pageVars>>

\* One iteration of [v for v in original_vendor_data if v['vendor_code'] not
\* in current_hidden_vendors]: the global is looked up at every iteration.
thread_visible_step(t) ==
    /\ t \in DOMAIN threads
    /\ threads[t].pc = "visible"
    /\ LET th == threads[t]
       IN  IF th.i > Len(original_vendor_data)
           THEN threads' = [threads EXCEPT ![t].pc = "statistics"]
           ELSE threads' =
                  [threads EXCEPT
                     ![t].i = th.i + 1,
                     ![t].visible =
                        IF original_vendor_data[th.i].vendor_code \notin current_hidden_vendors
                        THEN Append(th.visible, original_vendor_data[th.i])
                        ELSE th.visible]
    /\ UNCHANGED <<max_vendors_for_overlap, engineVars, data_processor, server,
                   original_vendor_data, current_hidden_vendors, response, pageVars>>

\* The rest of the handler: the overlaps of the visible list, the statistics
\* with len(current_hidden_vendors) as it is now, and the response.
thread_respond(t) ==
    /\ t \in DOMAIN threads
    /\ threads[t].pc = "statistics"
    /\ LET visible == threads[t].visible
           overlapping_visible == calculate_overlaps_for_vendors(visible)
           base == filter_statistics(original_vendor_data, visible,
                                     current_hidden_vendors, overlapping_visible)
           answer ==
             IF threads[t].kind = "filter"
             THEN [endpoint |-> "filter_vendors", status |-> 200, success |-> TRUE,
                   visible_vendors |-> visible,
                   statistics |-> base,
                   overlapping_vendors |-> overlapping_visible]
             ELSE [endpoint |-> "statistics", status |-> 200,
                   statistics |->
                     [k \in (DOMAIN base) \cup {"vendor_density", "total_orders"} |->
                        IF k = "vendor_density"
                        THEN IF "vendor_density" \in DOMAIN vendor_statistics
                             THEN vendor_statistics.vendor_density ELSE Zero
                        ELSE IF k = "total_orders" THEN TotalOrders(visible)
                        ELSE base[k]]]
       IN  /\ threads' = [threads EXCEPT ![t].pc = "done", ![t].response = answer]
           /\ response' = answer
    /\ UNCHANGED <<max_vendors_for_overlap, engineVars, data_processor, server,
                   original_vendor_data, current_hidden_vendors, pageVars>>

NextThreaded ==
    \/ main(<<OrderRow("A", 100), OrderRow("B", 500), OrderRow("C", 300)>>,
            <<GeoRow("A", Place(0, 0)), GeoRow("B", Place(0, 10)),
              GeoRow("C", Place(0, 20))>>)
    \/ \E t \in 1..MaxThreads, h \in ThreadedLists : accept_request(t, "filter", h)
    \/ \E t \in 1..MaxThreads : accept_request(t, "statistics", <<>>)
    \/ \E t \in 1..MaxThreads : thread_set_hidden(t)
    \/ \E t \in 1..MaxThreads : thread_visible_step(t)
    \/ \E t \in 1..MaxThreads : thread_respond(t)

\* The server answering up to MaxThreads requests at once.
SpecThreaded == Init /\ [][NextThreaded]_vars

\* The response shows one hidden set: its active count and its overlap
\* figures are those of the store without some set of codes H, and its hidden
\* count is the size of that H.
ReflectsOneHiddenSet(r) ==
    \E H \in SUBSET HiddenCodes :
        LET visible == Visible(original_vendor_data, H)
        IN  /\ r.statistics.active_vendors = Len(visible)
            /\ r.statistics.hidden_vendors = Cardinality(H)
            /\ r.statistics.overlapping_vendors =
                  Cardinality(calculate_overlaps_for_vendors(visible))
            /\ r.statistics.max_orders = MaxOf(Column(visible, "total_order_count"), 0)
            /\ r.endpoint = "filter_vendors" => r.visible_vendors = visible

\* C1: with filter and statistics requests answered concurrently, every
\* response reflects exactly one hidden set: its visible list, its counts and
\* its overlap figures all belong to that same set.
C1_ResponseReflectsOneHiddenSet ==
    \A t \in DOMAIN threads :
        threads[t].pc = "done" => ReflectsOneHiddenSet(threads[t].response)

----------------------------------------------------------------------------
(* Properties of the filter of the server and of the old version's page *)

\* The code lists a filter request can carry.
SentLists == { body.hidden_vendors : body \in { b \in FilterBodies : "hidden_vendors" \in DOMAIN b } }

\* The body of a request carrying the code list h.
BodyWith(h) == [json |-> "object", hidden_vendors |-> h]

----------------------------------------------------------------------------
(* Properties of the server, one request at a time *)

HasStatistics(r) == "statistics" \in DOMAIN r

IsRate(f) == f.den > 0 /\ 0 <= f.num /\ f.num <= 100 * f.den

\* The k-th smallest member of a set of indices.
KthOf(S, k) == CHOOSE i \in S : Cardinality({j \in S : j <= i}) = k

\* s holds exactly the records of store whose code is not in hidden, in
\* store order.
IsVisibleSequence(s, store, hidden) ==
    LET keep == {i \in DOMAIN store : store[i].vendor_code \notin hidden}
    IN  /\ Len(s) = Cardinality(keep)
        /\ \A k \in DOMAIN s : s[k] = store[KthOf(keep, k)]

\* C2, as claimed: while the server runs, every record of the store has
\* exactly the fields and values ingestion gave it, and the engine's fields
\* are those of the load.
C2_StoreAsIngested ==
    server = "running" =>
        original_vendor_data =
            IF data_processor = None THEN <<>>
            ELSE get_vendor_data_for_js(vendors_df, overlapping_vendor_codes)

\* C4: the visible vendors behind every filter, statistics, ranking and
\* export response are exactly the store's records whose code is not in the
\* current hidden set, in store order.
C4_VisibleIsStoreMinusHidden ==
    LET keep == {i \in DOMAIN original_vendor_data :
                    original_vendor_data[i].vendor_code \notin current_hidden_vendors}
    IN  /\ (response.endpoint = "filter_vendors" /\ response.success)
              => IsVisibleSequence(response.visible_vendors, original_vendor_data,
                                   current_hidden_vendors)
        /\ (response.endpoint = "statistics" /\ response.status = 200)
              => /\ response.statistics.active_vendors = Cardinality(keep)
                 /\ response.statistics.total_orders =
                        SumSeq([k \in 1..Cardinality(keep) |->
                            original_vendor_data[KthOf(keep, k)].total_order_count])
        /\ (response.endpoint = "rankings" /\ response.status = 200)
              => /\ response.total = Cardinality(keep)
                 /\ Len(response.vendors) = Cardinality(keep)
                 /\ Range(response.vendors) = {original_vendor_data[i] : i \in keep}
        /\ (response.endpoint = "export" /\ response.status = 200)
              => /\ Len(response.data) = Cardinality(keep)
                 /\ \A k \in DOMAIN response.data :
                        response.data[k][1] =
                            original_vendor_data[KthOf(keep, k)].vendor_code

\* C4 witness: a filter response that left out a hidden vendor and kept
\* another.
C4_Witness ==
    /\ response.endpoint = "filter_vendors"
    /\ response.success
    /\ response.statistics.active_vendors >= 2
    /\ response.statistics.active_vendors < response.statistics.total_vendors

\* C5: every reported overlap_rate lies in [0,100] and is 0 when the set it
\* was computed over has at most one member.
C5_OverlapRateInRange ==
    /\ (HasStatistics(response) /\ response.status = 200)
          => /\ IsRate(response.statistics.overlap_rate)
             /\ response.statistics.active_vendors <= 1
                   => response.statistics.overlap_rate.num = 0
    /\ vendor_statistics # <<>>
          => /\ IsRate(vendor_statistics.overlap_rate)
             /\ vendor_statistics.total_vendors <= 1
                   => vendor_statistics.overlap_rate.num = 0

\* C5 witness: a filter response over a single visible vendor of a store in
\* which every vendor overlaps another.
C5_Witness ==
    /\ response.endpoint = "filter_vendors"
    /\ response.success
    /\ response.statistics.active_vendors = 1
    /\ vendor_statistics # <<>>
    /\ vendor_statistics.overlap_rate.num = 100 * vendor_statistics.overlap_rate.den

\* C6, as claimed: in every snapshot overlap_rate is overlapping_vendors /
\* total_vendors * 100 of that snapshot, and 0 when total_vendors is 0.
C6_RateOverTotal ==
    /\ (HasStatistics(response) /\ response.status = 200)
          => LET st == response.statistics
             IN  IF st.total_vendors = 0 THEN st.overlap_rate.num = 0
                 ELSE FracEq(st.overlap_rate,
                             Frac(st.overlapping_vendors * 100, st.total_vendors))
    /\ vendor_statistics # <<>>
          => FracEq(vendor_statistics.overlap_rate,
                    Frac(vendor_statistics.overlapping_vendors * 100,
                         vendor_statistics.total_vendors))

\* C6, amended: in a filter or statistics response overlap_rate is
\* overlapping_vendors / active_vendors * 100 (0 when active_vendors is 0);
\* in the baseline snapshot it is overlapping_vendors / total_vendors * 100.
C6_RateOverActive ==
    /\ (HasStatistics(response) /\ response.status = 200)
          => LET st == response.statistics
             IN  IF st.active_vendors = 0 THEN st.overlap_rate.num = 0
                 ELSE FracEq(st.overlap_rate,
                             Frac(st.overlapping_vendors * 100, st.active_vendors))
    /\ vendor_statistics # <<>>
          => FracEq(vendor_statistics.overlap_rate,
                    Frac(vendor_statistics.overlapping_vendors * 100,
                         vendor_statistics.total_vendors))

\* C6 witness: a response with a hidden vendor and overlapping visible ones.
C6_Witness ==
    /\ HasStatistics(response)
    /\ response.status = 200
    /\ response.statistics.active_vendors < response.statistics.total_vendors
    /\ response.statistics.overlapping_vendors > 0

----------------------------------------------------------------------------
(* Properties of the overlap engine *)

\* The mode _calculate_overlaps runs in on the loaded store.
ExactMode == Len(vendors_df) <= max_vendors_for_overlap

\* The overlap predicate of that mode on the store's records i and j.
Overlaps(i, j) ==
    IF ExactMode THEN buffers_intersect(vendors_df[i], vendors_df[j])
    ELSE simple_distance_test(vendors_df[i], vendors_df[j])

OverlappingPositions ==
    {p \in (DOMAIN vendors_df) \X (DOMAIN vendors_df) :
        p[1] < p[2] /\ Overlaps(p[1], p[2])}

\* C7, as claimed: no pair of overlap_pairs has the same code on both sides,
\* none is listed twice, and none is listed in both orders.
C7_PairsUnique ==
    \A k \in DOMAIN overlap_pairs :
        /\ overlap_pairs[k][1] # overlap_pairs[k][2]
        /\ \A m \in DOMAIN overlap_pairs :
              m # k => /\ overlap_pairs[m] # overlap_pairs[k]
                       /\ overlap_pairs[m] # <<overlap_pairs[k][2], overlap_pairs[k][1]>>

\* C8, as claimed: every pair the exact pass flagged (it recorded an
\* intersection geometry for it) also passes the approximate distance test,
\* in the engine's form and in the request handlers' form.
C8_ExactImpliesApproximate ==
    \A k \in DOMAIN intersection_geometries :
        LET i == intersection_geometries[k][1]
            j == intersection_geometries[k][2]
        IN  /\ simple_distance_test(vendors_df[i], vendors_df[j])
            /\ app_distance_test(vendors_df[i], vendors_df[j])

\* C9: computing the overlaps again on the unchanged store leaves
\* overlapping_vendor_codes, overlap_pairs and intersection_geometries as
\* they were, and asking for the statistics again returns the same response.
C9_OverlapIdempotent ==
    [][/\ recalculate_overlaps
          => UNCHANGED <<overlapping_vendor_codes, overlap_pairs,
                         intersection_geometries>>
       /\ (get_statistics /\ response.endpoint = "statistics")
          => response' = response]_vars

\* C9 witness: the overlaps were computed again on a store with two
\* overlapping pairs.
C9_Witness ==
    /\ response.endpoint = "_calculate_overlaps"
    /\ Len(overlap_pairs) >= 2

\* C10: overlap_pairs holds exactly the pairs of records that satisfy the
\* overlap predicate themselves, overlapping_vendor_codes exactly the codes
\* of those pairs; three vendors of which only the first and second and the
\* second and third overlap give three codes and two pairs.
C10_PairsAreDirectOverlaps ==
    data_processor = "DataProcessor" =>
        /\ Len(overlap_pairs) = Cardinality(OverlappingPositions)
        /\ Range(overlap_pairs) =
              {<<vendors_df[p[1]].vendor_code, vendors_df[p[2]].vendor_code>> :
                  p \in OverlappingPositions}
        /\ overlapping_vendor_codes =
              UNION {{pair[1], pair[2]} : pair \in Range(overlap_pairs)}
        /\ (Len(vendors_df) = 3 /\ OverlappingPositions = {<<1, 2>>, <<2, 3>>})
              => /\ overlapping_vendor_codes = Codes(vendors_df)
                 /\ Len(overlap_pairs) = 2

\* C10 witness: a loaded store A, B, C in which A-B and B-C overlap and A-C
\* does not.
C10_Witness ==
    /\ data_processor = "DataProcessor"
    /\ Len(vendors_df) = 3
    /\ OverlappingPositions = {<<1, 2>>, <<2, 3>>}
    /\ overlapping_vendor_codes = {"A", "B", "C"}
    /\ Len(overlap_pairs) = 2

----------------------------------------------------------------------------
(* Properties of the recomputation after a filter *)

\* Some other row of the sequence overlaps row i under one of the engine's tests.
OverlapsAnother(rows, i) ==
    \E j \in DOMAIN rows :
        /\ j # i
        /\ \/ app_distance_test(rows[i], rows[j])
           \/ buffers_intersect(rows[i], rows[j])

\* Every code of the set is the code of a row that overlaps another row.
OnlyDirectOverlaps(codes, rows) ==
    \A c \in codes : \E i \in DOMAIN rows : rows[i].vendor_code = c /\ OverlapsAnother(rows, i)

\* No two rows of the sequence overlap under the distance test.
NoPairOverlaps(rows) ==
    \A i, j \in DOMAIN rows : i # j => ~app_distance_test(rows[i], rows[j])

\* C11: after a filter, the overlapping set returned holds a code only if a
\* visible vendor of that code overlaps another visible vendor, no hidden
\* vendor is among the visible ones, and when no two visible vendors overlap
\* the set is empty and overlap_rate is 0 -- whatever the overlaps of the full
\* store were; the same for DataProcessor.filter_vendors_real_time.
C11_OverlapRederivedOverVisible ==
    /\ [](response.endpoint = "filter_vendors" /\ response.status = 200 =>
            LET visible == response.visible_vendors
            IN  /\ Codes(visible) \cap current_hidden_vendors = {}
                /\ OnlyDirectOverlaps(response.overlapping_vendors, visible)
                /\ NoPairOverlaps(visible) =>
                      /\ response.overlapping_vendors = {}
                      /\ response.statistics.overlapping_vendors = 0
                      /\ response.statistics.overlap_rate.num = 0)
    /\ [][\A h \in HiddenSets :
            filter_vendors_real_time(h) =>
                LET visible == response'.vendors_js_data
                IN  /\ Codes(visible) \cap h = {}
                    /\ OnlyDirectOverlaps(response'.visible_overlapping, visible)
                    /\ (h # {} /\ NoPairOverlaps(visible)) =>
                          response'.visible_overlapping = {}]_vars

\* The chain A-B, B-C is loaded, all three vendors overlap in the full store,
\* B has been hidden, and the filter response shows A and C with no overlap.
C11_Witness ==
    /\ response.endpoint = "filter_vendors"
    /\ response.status = 200
    /\ overlapping_vendor_codes = {"A", "B", "C"}
    /\ current_hidden_vendors = {"B"}
    /\ Codes(response.visible_vendors) = {"A", "C"}
    /\ response.overlapping_vendors = {}
    /\ response.statistics.overlap_rate.num = 0

----------------------------------------------------------------------------
(* Properties of the distance threshold *)

\* The squared distance of two rows in metres, at 111,000 m per degree.
PlanarMetersSq(v1, v2) ==
    ((v1.latitude - v2.latitude) * MetersPerUnit) * ((v1.latitude - v2.latitude) * MetersPerUnit)
    + ((v1.longitude - v2.longitude) * MetersPerUnit)
        * ((v1.longitude - v2.longitude) * MetersPerUnit)

\* The codes of the rows less than 2R metres from another row.
CloserThan2R(rows) ==
    {rows[i].vendor_code : i \in
        {k \in DOMAIN rows :
            \E j \in DOMAIN rows :
                j # k /\ PlanarMetersSq(rows[k], rows[j])
                            < (2 * SERVICE_RADIUS) * (2 * SERVICE_RADIUS)}}

\* C12: with R = 3000 the distance test of a filter flags exactly the vendors
\* strictly less than 6000 m from another visible vendor: of two visible
\* vendors (two codes) both are reported (overlapping_vendors = 2, overlap_rate = 100)
\* when they are less than 6000 m apart, and none (overlap_rate = 0) at
\* 6000 m or more; the same for DataProcessor.filter_vendors_real_time with
\* vendors hidden.
C12_FlaggedIffCloserThan2R ==
    /\ [](response.endpoint = "filter_vendors" /\ response.status = 200 =>
            LET visible == response.visible_vendors
                stats   == response.statistics
            IN  /\ response.overlapping_vendors = CloserThan2R(visible)
                /\ (Len(visible) = 2 /\ visible[1].vendor_code # visible[2].vendor_code) =>
                      IF PlanarMetersSq(visible[1], visible[2]) < 6000 * 6000
                      THEN /\ stats.overlapping_vendors = 2
                           /\ stats.overlap_rate.num = 100 * stats.overlap_rate.den
                      ELSE /\ stats.overlapping_vendors = 0
                           /\ stats.overlap_rate.num = 0)
    /\ [][\A h \in HiddenSets :
            (filter_vendors_real_time(h) /\ h # {}) =>
                response'.visible_overlapping = CloserThan2R(response'.vendors_js_data)]_vars

\* A filter response over two visible vendors exactly 6000 m apart, none of
\* them reported.
C12_Witness ==
    /\ response.endpoint = "filter_vendors"
    /\ response.status = 200
    /\ Len(response.visible_vendors) = 2
    /\ PlanarMetersSq(response.visible_vendors[1], response.visible_vendors[2]) = 6000 * 6000
    /\ response.overlapping_vendors = {}

\* A filter response over two visible vendors 2000 m apart, both reported.
C12_Reported2000 ==
    /\ response.endpoint = "filter_vendors"
    /\ response.status = 200
    /\ Len(response.visible_vendors) = 2
    /\ PlanarMetersSq(response.visible_vendors[1], response.visible_vendors[2]) = 2000 * 2000
    /\ response.statistics.overlapping_vendors = 2

\* A filter response over two visible vendors 7000 m apart, none reported.
C12_NotReported7000 ==
    /\ response.endpoint = "filter_vendors"
    /\ response.status = 200
    /\ Len(response.visible_vendors) = 2
    /\ PlanarMetersSq(response.visible_vendors[1], response.visible_vendors[2]) = 7000 * 7000
    /\ response.statistics.overlap_rate.num = 0

----------------------------------------------------------------------------
(* Properties of the rankings *)

\* The response is a ranking: of the server, or of DataProcessor.get_ranking_data.
IsRanking(r) ==
    \/ r.endpoint = "rankings" /\ r.status = 200
    \/ r.endpoint = "get_ranking_data"

\* The rows of a ranking, each with its rank, its vendor code and its value.
RankingRows(r) ==
    IF r.endpoint = "rankings"
    THEN [k \in DOMAIN r.vendors |->
            [rank |-> r.vendors[k].rank,
             vendor_code |-> r.vendors[k].vendor_code,
             value |-> r.vendors[k][ranking_mapping[r.ranking_type]]]]
    ELSE [k \in DOMAIN r.ranking_data |->
            [rank |-> r.ranking_data[k].rank,
             vendor_code |-> r.ranking_data[k].vendor_code,
             value |-> r.ranking_data[k].value]]

\* The row of a ranking was made from the record of the table.
RowOf(row, rec) ==
    /\ rec.vendor_code = row.vendor_code
    /\ row.value \in {rec.total_order_count, rec.avg_daily_orders}

\* C13: in every ranking, of two vendors with equal values the one with the
\* smaller rank number is the one earlier in the store.
C13_TiesInIngestionOrder ==
    IsRanking(response) =>
        LET rows == RankingRows(response)
        IN  \A k, l \in DOMAIN rows :
                (rows[k].value = rows[l].value /\ rows[k].rank < rows[l].rank) =>
                    \E i, j \in DOMAIN vendors_df :
                        /\ i < j
                        /\ RowOf(rows[k], vendors_df[i])
                        /\ RowOf(rows[l], vendors_df[j])

\* C14: a ranking by a recognized metric gives the k-th row rank k, so the
\* ranks are exactly 1..n; the rows are the visible vendors; a vendor with a
\* strictly larger value has a smaller rank number; and vendors A, B, C with
\* values 100, 500, 300 get ranks 3, 1, 2.
C14_RanksOneToN ==
    /\ [](IsRanking(response) =>
            LET rows == RankingRows(response)
            IN  /\ {rows[k].rank : k \in DOMAIN rows} = 1..Len(rows)
                /\ \A k, l \in DOMAIN rows : k # l => rows[k].rank # rows[l].rank
                /\ \A k, l \in DOMAIN rows :
                      rows[k].value > rows[l].value => rows[k].rank < rows[l].rank
                /\ response.endpoint = "rankings" =>
                      Len(rows) = Len(Visible(original_vendor_data, current_hidden_vendors))
                /\ {<<rows[k].vendor_code, rows[k].value>> : k \in DOMAIN rows}
                        = {<<"A", 100>>, <<"B", 500>>, <<"C", 300>>}
                      => {<<rows[k].vendor_code, rows[k].rank>> : k \in DOMAIN rows}
                            = {<<"A", 3>>, <<"B", 1>>, <<"C", 2>>})
    /\ [][\A t \in DOMAIN RANKING_CRITERIA, h \in HiddenSets :
            get_ranking_data(t, h) =>
                Len(response'.ranking_data) = Len(isin_complement(vendors_df, h))]_vars

\* The server has ranked A, B, C with total orders 100, 500, 300.
C14_Witness ==
    /\ response.endpoint = "rankings"
    /\ response.status = 200
    /\ response.ranking_type = "Total Orders"
    /\ [k \in DOMAIN response.vendors |->
           <<response.vendors[k].vendor_code, response.vendors[k].total_order_count,
             response.vendors[k].rank>>]
         = << <<"B", 500, 1>>, <<"C", 300, 2>>, <<"A", 100, 3>> >>

\* The ranks of a sequence of rows are dense: the best value has rank 1, equal
\* values have equal ranks, and the ranks used are 1..m for some m.
DenseRanks(rows) ==
    /\ \A k, l \in DOMAIN rows : rows[k].value = rows[l].value => rows[k].rank = rows[l].rank
    /\ \A k, l \in DOMAIN rows : rows[k].value > rows[l].value => rows[k].rank < rows[l].rank
    /\ \E m \in 0..Len(rows) : {rows[k].rank : k \in DOMAIN rows} = 1..m

\* The rows of the display table for one criterion: rank column and value.
DisplayRows(r, criterion) ==
    [i \in DOMAIN r.display_df |->
        [rank |-> r.display_df[i][criterion],
         value |-> vendors_df[i][RANKING_CRITERIA[criterion]]]]

\* C15 as stated: every ranking carries dense ranks.
C15_DenseRanksEverywhere ==
    /\ IsRanking(response) => DenseRanks(RankingRows(response))
    /\ response.endpoint = "format_dataframe_for_display" =>
          \A c \in DOMAIN RANKING_CRITERIA : DenseRanks(DisplayRows(response, c))

\* C15 as the code has it: the rankings of the server and of get_ranking_data
\* are ordinal -- the k-th row of the sorted list has rank k, so the best value
\* has rank 1, the ranks are 1..n without a gap, and vendors of equal value get
\* different, consecutive ranks; only the rank columns of the display table
\* (format_dataframe_for_display) are dense.
C15_OrdinalRanksDenseDisplay ==
    /\ IsRanking(response) =>
          LET rows == RankingRows(response)
          IN  /\ \A k \in DOMAIN rows : rows[k].rank = k
              /\ \A k \in DOMAIN rows : rows[k].value >= rows[rows[k].rank].value
              /\ \A k, l \in DOMAIN rows : k < l => rows[k].value >= rows[l].value
    /\ response.endpoint = "format_dataframe_for_display" =>
          \A c \in DOMAIN RANKING_CRITERIA : DenseRanks(DisplayRows(response, c))

\* The server has ranked two vendors of equal total orders 1 and 2.
C15_Witness ==
    /\ response.endpoint = "rankings"
    /\ response.status = 200
    /\ response.ranking_type = "Total Orders"
    /\ Len(response.vendors) >= 2
    /\ response.vendors[1].total_order_count = response.vendors[2].total_order_count
    /\ response.vendors[1].rank = 1
    /\ response.vendors[2].rank = 2

\* The display table of a store with two vendors of equal total orders, both
\* of rank 1.
C15_DisplayTie ==
    /\ response.endpoint = "format_dataframe_for_display"
    /\ \E i, j \in DOMAIN response.display_df :
          /\ i # j
          /\ vendors_df[i].total_order_count = vendors_df[j].total_order_count
          /\ response.display_df[i]["Total Orders"] = 1
          /\ response.display_df[j]["Total Orders"] = 1

\* C16: a ranking request with an unrecognized metric name is answered with an
\* error that names the metric and every recognized metric name, and leaves
\* the hidden set and the store as they were; get_ranking_data reports an
\* error as well.
C16_InvalidMetricError ==
    /\ []((response.endpoint = "rankings" /\ response.status # 200) =>
            /\ "error" \in DOMAIN response
            /\ \E t \in RankingTypes \ DOMAIN ranking_mapping : t \in Range(response.error)
            /\ \A name \in DOMAIN ranking_mapping : name \in Range(response.error))
    /\ [][\A t \in RankingTypes \ DOMAIN ranking_mapping :
            /\ get_rankings(t) =>
                  UNCHANGED <<original_vendor_data, current_hidden_vendors, vendors_df>>
            /\ \A h \in HiddenSets :
                  get_ranking_data(t, h) => "error" \in DOMAIN response']_vars

----------------------------------------------------------------------------
(* Properties of the empty and the single-vendor corpus *)

\* No store vendor is visible: the store is empty or all of it is hidden.
ZeroVisible == Visible(original_vendor_data, current_hidden_vendors) = <<>>

\* The statistics of a response are all present and 0.
ZeroStatistics(stats) ==
    /\ {"active_vendors", "overlapping_vendors", "overlap_rate", "avg_orders", "max_orders"}
          \subseteq DOMAIN stats
    /\ stats.active_vendors = 0
    /\ stats.overlapping_vendors = 0
    /\ stats.overlap_rate.num = 0 /\ stats.overlap_rate.den # 0
    /\ stats.avg_orders.num = 0 /\ stats.avg_orders.den # 0
    /\ stats.max_orders = 0

\* C17: with zero visible vendors every operation succeeds with empty or zero
\* results: a filter answers an empty overlap set and zero statistics, a
\* statistics query answers 200 with zero statistics, a ranking is empty, an
\* export has no rows, and the engine's snapshot of an empty table has its
\* counts present and 0; starting on a store without vendors is no failure.
C17_EmptyCorpusIsNoError ==
    /\ (server = "running" /\ ZeroVisible) =>
          /\ response.endpoint = "filter_vendors" /\ response.status = 200 =>
                /\ response.visible_vendors = <<>>
                /\ response.overlapping_vendors = {}
                /\ ZeroStatistics(response.statistics)
          /\ response.endpoint = "statistics" =>
                /\ response.status = 200
                /\ ZeroStatistics(response.statistics)
          /\ response.endpoint = "rankings" /\ response.status = 200 =>
                response.vendors = <<>> /\ response.total = 0
          /\ response.endpoint = "export" /\ response.status = 200 =>
                response.data = <<>>
    /\ (data_processor # None /\ vendors_df = <<>>) =>
          /\ server # "exited"
          /\ {"total_vendors", "overlapping_vendors", "overlap_rate"}
                \subseteq DOMAIN vendor_statistics
          /\ vendor_statistics.total_vendors = 0

\* The server runs on a store whose vendors are all hidden, and the filter
\* has answered with zero statistics.
C17_AllHiddenAnswered ==
    /\ server = "running"
    /\ original_vendor_data # <<>>
    /\ ZeroVisible
    /\ response.endpoint = "filter_vendors"
    /\ response.status = 200
    /\ ZeroStatistics(response.statistics)

\* A quotient is a number: not 0 / 0.
IsNumber(f) == f.den # 0

\* C18: for a corpus of one vendor, and for the empty corpus, vendor_density
\* and the standard deviation of every metric are in the engine's snapshot
\* and are 0 -- not NaN.
C18_ZeroNotNaN ==
    (data_processor # None /\ Len(vendors_df) <= 1) =>
        /\ {"vendor_density", "total_order_count_std", "avg_daily_orders_std"}
              \subseteq DOMAIN vendor_statistics
        /\ vendor_statistics.vendor_density = Zero
        /\ IsNumber(vendor_statistics.total_order_count_std)
        /\ vendor_statistics.total_order_count_std.num = 0
        /\ IsNumber(vendor_statistics.avg_daily_orders_std)
        /\ vendor_statistics.avg_daily_orders_std.num = 0

\* A store of one vendor is loaded: its density is 0 and the standard
\* deviation of its total orders is NaN.
C18_SingleVendorNaN ==
    /\ Len(vendors_df) = 1
    /\ vendor_statistics.vendor_density = Zero
    /\ vendor_statistics.total_order_count_std = NaNQuotient

----------------------------------------------------------------------------
(* Properties of the mode selection and of the performance indicators *)

\* The codes of the rows whose 3000 m disk meets the disk of another row.
DisksMeet(rows) ==
    {rows[i].vendor_code : i \in
        {k \in DOMAIN rows : \E j \in DOMAIN rows : j # k /\ buffers_intersect(rows[k], rows[j])}}

\* C19: the overlapping codes of the initial pass are those of the exact test
\* when the table has at most `ceiling` rows and those of the distance test
\* when it has more, and intersection geometries exist only in exact mode;
\* every filter -- of the server, and DataProcessor.filter_vendors_real_time,
\* with an empty hidden set too -- answers the codes of the distance test.
C19_ModeSelection ==
    /\ []((data_processor # None /\ vendors_df # <<>>) =>
            IF Len(vendors_df) <= max_vendors_for_overlap
            THEN /\ overlapping_vendor_codes = DisksMeet(vendors_df)
                 /\ Len(intersection_geometries) = Len(overlap_pairs)
            ELSE /\ overlapping_vendor_codes = CloserThan2R(vendors_df)
                 /\ intersection_geometries = <<>>)
    /\ []((response.endpoint = "filter_vendors" /\ response.status = 200) =>
            response.overlapping_vendors = CloserThan2R(response.visible_vendors))
    /\ [][\A h \in HiddenSets :
            filter_vendors_real_time(h) =>
                response'.visible_overlapping
                    = CloserThan2R(isin_complement(vendors_df, h))]_vars

\* The table has more rows than the ceiling and was handled in approximate
\* mode, without intersection geometries.
C19_ApproximateAboveCeiling ==
    /\ Len(vendors_df) = max_vendors_for_overlap + 1
    /\ overlap_pairs # <<>>
    /\ intersection_geometries = <<>>

\* The table has exactly as many rows as the ceiling and was handled in exact
\* mode.
C19_ExactAtCeiling ==
    /\ Len(vendors_df) = max_vendors_for_overlap
    /\ intersection_geometries # <<>>

\* C20: the performance_score and volume_category of every vendor returned
\* with a filter response are those computed over the visible vendors: the
\* score normalized by their maxima, the category cut at their quartiles.
C20_IndicatorsOverVisible ==
    /\ []((response.endpoint = "filter_vendors" /\ response.status = 200) =>
            LET visible == response.visible_vendors
            IN  \A i \in DOMAIN visible :
                    /\ visible[i].performance_score
                          = calculate_performance_score(visible[i], visible)
                    /\ visible[i].volume_category = categorize_volume(visible[i], visible))
    /\ [][\A h \in HiddenSets :
            filter_vendors_real_time(h) =>
                LET visible == response'.vendors_js_data
                IN  \A i \in DOMAIN visible :
                        /\ visible[i].performance_score
                              = calculate_performance_score(visible[i], visible)
                        /\ visible[i].volume_category
                              = categorize_volume(visible[i], visible)]_vars

\* B, the vendor with the most orders, is hidden, and the filter response
\* still carries for A the score normalized by B's orders.
C20_StaleScoreReturned ==
    /\ response.endpoint = "filter_vendors"
    /\ response.status = 200
    /\ current_hidden_vendors = {"B"}
    /\ \E i \in DOMAIN response.visible_vendors :
          /\ response.visible_vendors[i].vendor_code = "A"
          /\ response.visible_vendors[i].performance_score
                # calculate_performance_score(response.visible_vendors[i],
                                              response.visible_vendors)

----------------------------------------------------------------------------
(* Properties of the reads that follow a filter *)

\* Vendors per square kilometre over the bounding rectangle of the rows, 0
\* when the rectangle has no area.
DensityOver(rows) ==
    IF BoundingAreaM2(rows) > 0
    THEN Reduced(Frac(Len(rows) * 1000000, BoundingAreaM2(rows)))
    ELSE Zero

\* C21: whatever filters came before, every value of a read that depends on
\* the vendor set is that of the visible vendors: in a statistics response
\* the overlap count, overlap_rate and vendor_density (over the bounding
\* rectangle of the visible vendors), in a ranking of the server and of
\* get_ranking_data the is_overlapping flag of every row.
C21_ReadsRecomputedOverVisible ==
    /\ []((response.endpoint = "statistics" /\ response.status = 200) =>
            LET visible == Visible(original_vendor_data, current_hidden_vendors)
                stats   == response.statistics
            IN  /\ stats.overlapping_vendors = Cardinality(CloserThan2R(visible))
                /\ IF visible = <<>> THEN stats.overlap_rate.num = 0
                   ELSE FracEq(stats.overlap_rate,
                               Frac(Cardinality(CloserThan2R(visible)) * 100, Len(visible)))
                /\ Reduced(stats.vendor_density) = DensityOver(visible))
    /\ []((response.endpoint = "rankings" /\ response.status = 200) =>
            LET visible == Visible(original_vendor_data, current_hidden_vendors)
            IN  \A k \in DOMAIN response.vendors :
                    response.vendors[k].is_overlapping
                        = (response.vendors[k].vendor_code \in CloserThan2R(visible)))
    /\ [][\A t \in DOMAIN RANKING_CRITERIA, h \in HiddenSets :
            get_ranking_data(t, h) =>
                \A k \in DOMAIN response'.ranking_data :
                    response'.ranking_data[k].is_overlapping
                        = (response'.ranking_data[k].vendor_code
                              \in CloserThan2R(isin_complement(vendors_df, h)))]_vars

\* A statistics response after a filter that left visible vendors on one
\* latitude: the bounding rectangle of the visible vendors has no area, and
\* the density reported is that of the full store.
C21_StaleDensity ==
    /\ response.endpoint = "statistics"
    /\ response.status = 200
    /\ current_hidden_vendors # {}
    /\ DensityOver(Visible(original_vendor_data, current_hidden_vendors)) = Zero
    /\ response.statistics.vendor_density # Zero

----------------------------------------------------------------------------
(* Properties of ingestion *)

\* No two rows of the sequence carry the same vendor_code.
UniqueCodes(rows) ==
    \A i, j \in DOMAIN rows : i # j => rows[i].vendor_code # rows[j].vendor_code

\* C22: whatever order and geo table the store was built from, no two of
\* its records carry the same vendor_code -- in the engine's table and in the
\* store the request handlers serve.
C22_VendorCodeUnique ==
    /\ UniqueCodes(vendors_df)
    /\ UniqueCodes(original_vendor_data)

\* The store built from an order table with two rows for A holds A twice.
C22_DuplicateIngested ==
    /\ server = "running"
    /\ \E i, j \in DOMAIN vendors_df :
          i < j /\ vendors_df[i].vendor_code = "A" /\ vendors_df[j].vendor_code = "A"

\* A score is a number of [0, 100].
IsScore(f) == f.den > 0 /\ 0 <= f.num /\ f.num <= 100 * f.den

\* (0.6 * total / max_total + 0.4 * daily / max_daily) * 100 for a row of the
\* table, a term being 0 when its maximum is 0.
ScoreOver(row, rows) ==
    LET max_total == MaxOf(Range(Values(rows, "total_order_count")), 0)
        max_daily == MaxOf(Range(Values(rows, "avg_daily_orders")), 0)
        total == IF max_total = 0 THEN Zero ELSE Frac(row.total_order_count, max_total)
        daily == IF max_daily = 0 THEN Zero ELSE Frac(row.avg_daily_orders, max_daily)
    IN  Reduced(Frac(60 * total.num * daily.den + 40 * daily.num * total.den,
                     total.den * daily.den))

\* C23: the performance_score of every vendor of the store is
\* (0.6 * total / max_total + 0.4 * daily / max_daily) * 100 over the store, a
\* term being 0 when its maximum is 0, and lies in [0, 100]; and a table whose
\* vendors all have 0 orders and 0 daily orders is loaded, every vendor with
\* score 0, instead of failing.
C23_ScoreFormula ==
    /\ [](\A i \in DOMAIN vendors_df :
            /\ IsScore(vendors_df[i].performance_score)
            /\ vendors_df[i].performance_score = ScoreOver(vendors_df[i], vendors_df))
    /\ [][\A o \in EngineOrderTables, g \in GeoTables :
            (main(o, g) /\ clean_vendor_data(o, g) # <<>>) =>
                /\ server' = "running"
                /\ Len(vendors_df') = Len(clean_vendor_data(o, g))]_vars

\* A store is loaded in which no vendor has daily orders: the score of the
\* vendor with the most orders is 60, that of a vendor with a fifth of them
\* is 12.
C23_OneMaximumZero ==
    /\ server = "running"
    /\ \E i, j \in DOMAIN vendors_df :
          /\ vendors_df[i].avg_daily_orders = 0 /\ vendors_df[j].avg_daily_orders = 0
          /\ vendors_df[i].performance_score = Frac(60, 1)
          /\ vendors_df[j].performance_score = Frac(12, 1)

\* C24: every vendor of the store has one of the three volume categories:
\* High iff its total_order_count is at least the 75th percentile of the
\* store, Low iff it is less than the 25th percentile, Medium otherwise; a
\* store whose vendors all have the same count is entirely High; and the
\* three counts of the snapshot are the sizes of the categories.
C24_VolumeCategory ==
    data_processor # None =>
        /\ \A i \in DOMAIN vendors_df :
              LET count == vendors_df[i].total_order_count
                  p75x4 == quantile_times_4(Values(vendors_df, "total_order_count"), 3)
                  p25x4 == quantile_times_4(Values(vendors_df, "total_order_count"), 1)
              IN  /\ vendors_df[i].volume_category \in {"High", "Medium", "Low"}
                  /\ vendors_df[i].volume_category = "High" <=> 4 * count >= p75x4
                  /\ vendors_df[i].volume_category = "Medium"
                        <=> (4 * count >= p25x4 /\ 4 * count < p75x4)
                  /\ vendors_df[i].volume_category = "Low" <=> 4 * count < p25x4
        /\ Cardinality(Range(Values(vendors_df, "total_order_count"))) = 1
              => \A i \in DOMAIN vendors_df : vendors_df[i].volume_category = "High"
        /\ vendors_df # <<>> =>
              /\ vendor_statistics.high_volume_count
                    = Cardinality({i \in DOMAIN vendors_df :
                                      vendors_df[i].volume_category = "High"})
              /\ vendor_statistics.high_volume_count + vendor_statistics.medium_volume_count
                    + vendor_statistics.low_volume_count = Len(vendors_df)

\* A store of three vendors with the same count, all of them High.
C24_Witness ==
    /\ Len(vendors_df) = 3
    /\ Cardinality(Range(Values(vendors_df, "total_order_count"))) = 1
    /\ vendor_statistics.high_volume_count = 3

\* A store of three vendors, one in each category.
C24_OneOfEach ==
    /\ Len(vendors_df) = 3
    /\ vendor_statistics.high_volume_count = 1
    /\ vendor_statistics.medium_volume_count = 1
    /\ vendor_statistics.low_volume_count = 1

----------------------------------------------------------------------------
(* Properties of a failing overlap pass *)

\* The engine's three overlap fields.
OverlapFields ==
    [codes |-> overlapping_vendor_codes, pairs |-> overlap_pairs,
     geoms |-> intersection_geometries]

\* C25: when the overlap pass raises in its pair loop, the engine's
\* overlapping codes, pairs and intersection geometries are what they were
\* before the pass started or the complete result for the table.
C25_NoPartialResult ==
    [][\A completed \in 0..MaxCompletedPairs :
          recalculate_overlaps_raising(completed) =>
              \/ OverlapFields' = OverlapFields
              \/ OverlapFields' = calculate_overlaps(vendors_df, OverlapFields,
                                                     max_vendors_for_overlap)]_vars

\* The exact pass raised after its first pair: one pair of the two that
\* overlap is in the engine's fields.
C25_PartialLeft ==
    /\ response.endpoint = "_calculate_overlaps"
    /\ "raised" \in DOMAIN response
    /\ Len(overlap_pairs) = 1
    /\ Len(calculate_overlaps(vendors_df, OverlapFields, max_vendors_for_overlap).pairs) = 2

\* The simplified pass raised in its loop: the fields hold the complete
\* result of the pass before.
C25_SimplifiedKeeps ==
    /\ response.endpoint = "_calculate_overlaps"
    /\ "raised" \in DOMAIN response
    /\ Len(vendors_df) > max_vendors_for_overlap
    /\ Len(overlap_pairs) = 2

----------------------------------------------------------------------------
(* Properties of a filter response taken by itself *)

\* C26: in every filter response and every statistics response
\* active_vendors + hidden_vendors = total_vendors, whatever codes the hidden
\* list held -- codes of no vendor of the store included.
C26_CountsAddUp ==
    (response.endpoint \in {"filter_vendors", "statistics"} /\ response.status = 200) =>
        response.statistics.active_vendors + response.statistics.hidden_vendors
            = response.statistics.total_vendors

\* A filter response to a hidden list that holds only a code of no vendor:
\* every vendor is active and one is counted as hidden.
C26_UnknownCodeCounted ==
    /\ response.endpoint = "filter_vendors"
    /\ response.status = 200
    /\ current_hidden_vendors = {"Z"}
    /\ response.statistics.active_vendors = response.statistics.total_vendors
    /\ response.statistics.hidden_vendors = 1

\* C27: every vendor of the visible_vendors list of a filter response has
\* is_overlapping true exactly when its code is in the overlapping_vendors
\* list of that response.
C27_FlagsMatchOverlapList ==
    (response.endpoint = "filter_vendors" /\ response.status = 200) =>
        \A i \in DOMAIN response.visible_vendors :
            response.visible_vendors[i].is_overlapping
                = (response.visible_vendors[i].vendor_code \in response.overlapping_vendors)

\* C28: the overlapping set returned by a filter update holds only codes of
\* visible vendors -- no hidden code, no code absent from the store -- and
\* never exactly one code; the same for DataProcessor.filter_vendors_real_time.
C28_OverlapSetOfVisiblePairs ==
    /\ []((response.endpoint = "filter_vendors" /\ response.status = 200) =>
            /\ response.overlapping_vendors \subseteq Codes(response.visible_vendors)
            /\ response.overlapping_vendors \subseteq Codes(original_vendor_data)
            /\ response.overlapping_vendors \cap current_hidden_vendors = {}
            /\ Cardinality(response.overlapping_vendors) # 1)
    /\ [][\A h \in HiddenSets :
            filter_vendors_real_time(h) =>
                /\ response'.visible_overlapping \subseteq Codes(vendors_df) \ h
                /\ Cardinality(response'.visible_overlapping) # 1]_vars

\* A filter response over a store that holds A twice, B hidden: the
\* overlapping set is {A}.
C28_SingleMember ==
    /\ response.endpoint = "filter_vendors"
    /\ response.status = 200
    /\ ~UniqueCodes(original_vendor_data)
    /\ response.overlapping_vendors = {"A"}

----------------------------------------------------------------------------
(* Properties of two filters, one after the other *)

----------------------------------------------------------------------------
(* Properties of a filter request that fails *)

\* C30: a filter request without a JSON body, with a body that is no object,
\* or with a hidden_vendors that is not iterable or holds unhashable items is
\* answered with an error, success = false, and leaves the hidden set as it
\* was; no step that ends in an error response of the filter changes the
\* hidden set, and every step that changes it ends in a filter response with
\* success = true.
C30_FailedFilterKeepsHiddenSet ==
    /\ [][\A body \in FailingBodies :
            filter_vendors(body) =>
                /\ response' = ErrorResponse("filter_vendors", 500)
                /\ current_hidden_vendors' = current_hidden_vendors]_vars
    /\ [][(response'.endpoint = "filter_vendors" /\ ~response'.success)
            => current_hidden_vendors' = current_hidden_vendors]_vars
    /\ [][current_hidden_vendors' # current_hidden_vendors
            => (response'.endpoint = "filter_vendors" /\ response'.success)]_vars

\* A filter request has failed while a vendor of the store was hidden, and
\* the vendor is hidden still.
C30_Witness ==
    /\ response.endpoint = "filter_vendors"
    /\ ~response.success
    /\ response.status = 500
    /\ current_hidden_vendors \cap Codes(original_vendor_data) # {}

====
